---- MODULE Spec2Model ----
(***************************************************************************)
(* Model of network/netplay/netplay_frontend.c: the GekkoNet frontend of   *)
(* RetroArch's netplay driver.                                              *)
(*                                                                         *)
(* The program state is the two file-level statics (g_gekkonet_api and     *)
(* networking_driver_st), the configuration store and the core's callback  *)
(* table.  The rollback engine, the operating system's UDP port table, the  *)
(* library file on disk and the emulator core are external collaborators:  *)
(* what they would answer is held in the variable world.  Every C function *)
(* is an operator from a bundle of the program state to the bundle after   *)
(* the call; the bundle also carries the log of external calls the function *)
(* made and its return value.                                              *)
(*                                                                         *)
(* The dynamic loader is the __linux__ variant (lines 603-757); the _WIN32 *)
(* variant (lines 443-583) sets the same fields on the same paths.         *)
(***************************************************************************)
EXTENDS Integers, Sequences, FiniteSets, TLC

VARIABLES
    g_gekkonet_api,        \* static gekkonet_dynamic_api_t g_gekkonet_api
    networking_driver_st,  \* static net_driver_state_t networking_driver_st
    settings,              \* the configuration store (config_get_ptr())
    core,                  \* the core's callback table
    engine,                \* the rollback engine's own session handles
    history,               \* what has happened to the loader so far
    world,                 \* what the external collaborators would answer
    last                   \* the last operation: arguments, result, calls

vars == <<g_gekkonet_api, networking_driver_st, settings, core, engine,
          history, world, last>>

NULL == 0

-----------------------------------------------------------------------------
(* Small helpers                                                           *)

Min(a, b) == IF a < b THEN a ELSE b

SeqToSet(s) == {s[i] : i \in 1..Len(s)}

\* the entries of a call log whose first component is tag
Calls(log, tag) == SelectSeq(log, LAMBDA e : e[1] = tag)

-----------------------------------------------------------------------------
(* Program constants                                                       *)

NETPLAY_BUTTON_COUNT == 16

\* const unsigned max_probes = 16 in netplay_setup_session
MaxProbes == 16

\* unsigned short
U16 == 65536

\* The eleven required symbols, in the order GEKKONET_RESOLVE binds them.
RequiredSymbols ==
    << "create", "destroy", "start", "net_adapter_set", "add_actor",
       "add_local_input", "update_session", "session_events",
       "network_stats", "network_poll", "default_adapter" >>

-----------------------------------------------------------------------------
(* The dynamic loader                                                      *)

\* g_gekkonet_api as zero-initialised static storage
ApiZero ==
    [ module         |-> NULL,
      attempted_load |-> FALSE,
      load_failed    |-> FALSE,
      module_path    |-> "",
      bound          |-> {},       \* the required symbols whose pointer is set
      last_error     |-> FALSE ]   \* the optional last_error pointer is set

HistoryZero ==
    [ open_failed    |-> FALSE,    \* both dlopen calls of some load failed
      symbol_missing |-> FALSE,    \* some load opened and missed a symbol
      loaded         |-> FALSE,    \* some load returned true
      \* the payload of the last Advance event the live session processed
      advance        |-> [seen |-> FALSE, payload |-> <<>>] ]

\* index of the first required symbol the library does not export, 0 if none
FirstMissing(exports) ==
    LET miss == {i \in 1..Len(RequiredSymbols) : RequiredSymbols[i] \notin exports}
    IN  IF miss = {} THEN 0 ELSE CHOOSE i \in miss : \A j \in miss : i <= j

\* the dlsym calls of the GEKKONET_RESOLVE sequence up to symbol n
ResolveLog(n) == [i \in 1..n |-> <<"dlsym", RequiredSymbols[i]>>]

\* lines 675-684: both dlopen calls failed
gekkonet_open_failed(api) ==
    [api EXCEPT !.attempted_load = FALSE, !.load_failed = TRUE]

\* a failure path that keeps the handle of the module it closed
SymbolMissingKeepsModule(api) ==
    [api EXCEPT !.last_error = FALSE, !.attempted_load = FALSE,
                !.load_failed = TRUE, !.module_path = ""]

\* lines 695-713: GEKKONET_RESOLVE found a symbol missing; the pointers
\* bound before it keep their values
gekkonet_symbol_missing(api) ==
    [api EXCEPT !.module = NULL, !.last_error = FALSE,
                !.attempted_load = FALSE, !.load_failed = TRUE,
                !.module_path = ""]

\* a loader that never sees its own module handle
LoaderModuleNeverSeen(api) == FALSE

\* lines 640-641: if (g_gekkonet_api.module) return true;
LoaderHasModule(api) == api.module # NULL

\* static bool gekkonet_load_library(void)
gekkonet_load_library(s) ==
    LET api == s.api
        lib == world.lib
    IN
    IF LoaderHasModule(api)
    THEN [s EXCEPT !.ret = TRUE, !.log = Append(@, <<"load_library", TRUE>>)]
    ELSE IF api.attempted_load
    THEN [s EXCEPT !.ret = FALSE, !.log = Append(@, <<"load_library", FALSE>>)]
    ELSE
      LET api1 == [api EXCEPT !.attempted_load = TRUE, !.load_failed = FALSE,
                              !.last_error = FALSE, !.module_path = ""]
          \* the absolute path is tried only when it could be built
          log1 == IF lib.exe_path THEN <<<<"dlopen", "absolute">>>> ELSE <<>>
          primary == lib.exe_path /\ lib.absolute
          log2 == IF primary THEN log1 ELSE Append(log1, <<"dlopen", "bare">>)
          opened == primary \/ lib.bare
          path == IF primary THEN "absolute" ELSE "libGekkoNet.so"
      IN
      IF ~opened
      THEN [s EXCEPT !.api = gekkonet_open_failed(api1),
                     !.hist.open_failed = TRUE,
                     !.ret = FALSE,
                     !.log = @ \o log2 \o <<<<"load_library", FALSE>>>>]
      ELSE
        LET api2 == [api1 EXCEPT !.module = 1, !.module_path = path]
            m == FirstMissing(lib.exports)
        IN
        IF m # 0
        THEN [s EXCEPT
                !.api = gekkonet_symbol_missing(
                          [api2 EXCEPT !.bound = (@ \cup {RequiredSymbols[i] : i \in 1..(m-1)})
                                              \ {RequiredSymbols[m]}]),
                !.hist.symbol_missing = TRUE,
                !.ret = FALSE,
                !.log = @ \o log2 \o ResolveLog(m)
                          \o << <<"dlclose">>, <<"load_library", FALSE>> >>]
        ELSE [s EXCEPT
                !.api = [api2 EXCEPT !.bound = SeqToSet(RequiredSymbols),
                                     !.last_error = lib.last_error # "none"],
                !.hist.loaded = TRUE,
                !.ret = TRUE,
                !.log = @ \o log2 \o ResolveLog(Len(RequiredSymbols))
                          \o << <<"dlsym", "last_error">>, <<"load_library", TRUE>> >>]

-----------------------------------------------------------------------------
(* The engine API behind the loader gate: the gekkonet_api wrappers        *)

\* the handle the engine hands out next: the lowest one not in use
FreshHandle(eng) == CHOOSE h \in 1..(Cardinality(eng.live) + 1) :
                        h \notin eng.live /\ \A k \in 1..(h-1) : k \in eng.live

\* static bool gekkonet_api_create(GekkoSession **session); the handle is
\* returned in out (NULL when the call fails)
gekkonet_api_create(s) ==
    LET s1 == gekkonet_load_library(s) IN
    IF ~s1.ret THEN [s1 EXCEPT !.ret = FALSE, !.out = NULL]
    ELSE IF ~world.create_ok
    THEN [s1 EXCEPT !.ret = FALSE, !.out = NULL,
                    !.log = Append(@, <<"create", NULL>>)]
    ELSE LET h == FreshHandle(s1.eng) IN
         [s1 EXCEPT !.ret = TRUE, !.out = h,
                    !.eng.live = @ \cup {h},
                    !.log = Append(@, <<"create", h>>)]

\* a destroy wrapper that reports success without calling the engine
DestroyNotForwarded(s, session) == [s EXCEPT !.ret = TRUE]

\* static bool gekkonet_api_destroy(GekkoSession *session)
gekkonet_api_destroy(s, session) ==
    IF session = NULL THEN [s EXCEPT !.ret = TRUE]
    ELSE LET s1 == gekkonet_load_library(s) IN
         IF ~s1.ret THEN [s1 EXCEPT !.ret = FALSE]
         ELSE [s1 EXCEPT !.ret = TRUE,
                         !.eng.live = @ \ {session},
                         !.eng.started = @ \ {session},
                         !.log = Append(@, <<"destroy", session>>)]

\* a start wrapper that never reaches the engine
StartNotForwarded(s, session, cfg) == s

\* static void gekkonet_api_start(GekkoSession *session, GekkoConfig *config)
gekkonet_api_start(s, session, cfg) ==
    LET s1 == gekkonet_load_library(s) IN
    IF ~s1.ret THEN s1
    ELSE [s1 EXCEPT !.eng.started = @ \cup {session},
                    !.log = Append(@, <<"start", session, cfg>>)]

\* static void gekkonet_api_net_adapter_set(session, adapter)
gekkonet_api_net_adapter_set(s, session, adapter) ==
    LET s1 == gekkonet_load_library(s) IN
    IF ~s1.ret THEN s1
    ELSE [s1 EXCEPT !.log = Append(@, <<"net_adapter_set", session, adapter>>)]

\* static int gekkonet_api_add_actor(session, LocalPlayer, NULL); the
\* handle is returned in out
gekkonet_api_add_actor(s, session) ==
    LET s1 == gekkonet_load_library(s) IN
    IF ~s1.ret THEN [s1 EXCEPT !.out = -1]
    ELSE [s1 EXCEPT !.out = world.actor,
                    !.log = Append(@, <<"add_actor", session, "LocalPlayer">>)]

\* static void gekkonet_api_add_local_input(session, player, input)
gekkonet_api_add_local_input(s, session, player, input) ==
    LET s1 == gekkonet_load_library(s) IN
    IF ~s1.ret THEN s1
    ELSE [s1 EXCEPT !.log = Append(@, <<"add_local_input", session, player, input>>)]

\* static void gekkonet_api_network_poll(session)
gekkonet_api_network_poll(s, session) ==
    LET s1 == gekkonet_load_library(s) IN
    IF ~s1.ret THEN s1
    ELSE [s1 EXCEPT !.log = Append(@, <<"network_poll", session>>)]

\* static GekkoNetAdapter *gekkonet_api_default_adapter(unsigned short port);
\* the adapter is returned in out
gekkonet_api_default_adapter(s, port) ==
    LET s1 == gekkonet_load_library(s) IN
    IF ~s1.ret THEN [s1 EXCEPT !.out = NULL]
    ELSE [s1 EXCEPT !.out = IF world.adapter_ok THEN 1 ELSE NULL,
                    !.log = Append(@, <<"default_adapter", port>>)]

-----------------------------------------------------------------------------
(* The port probe                                                          *)

\* what a probe reports: (available, verified).  A probe that could not
\* bind-test reports available = true, verified = false.
ProbeResult(outcome) ==
    CASE outcome = "free"       -> [available |-> TRUE,  verified |-> TRUE]
      [] outcome = "busy"       -> [available |-> FALSE, verified |-> TRUE]
      [] outcome = "unverified" -> [available |-> TRUE,  verified |-> FALSE]

\* the state of a port in the operating system's table
PortOutcome(udp, port) ==
    IF port < udp.at THEN udp.below
    ELSE IF port = udp.at THEN udp.here
    ELSE udp.above

\* static bool netplay_udp_port_available(unsigned short port, bool *verified)
netplay_udp_port_available(port) == ProbeResult(PortOutcome(world.udp, port))

-----------------------------------------------------------------------------
(* Bit and byte arithmetic                                                 *)

Pow2(n) == 2^n

\* bit i of a non-negative integer
Bit(x, i) == (x \div Pow2(i)) % 2

RECURSIVE XorBits(_, _, _)
\* bitwise exclusive or of two non-negative integers of at most n bits
XorBits(a, b, n) ==
    IF n = 0 THEN 0
    ELSE ((a + b) % 2) + 2 * XorBits(a \div 2, b \div 2, n - 1)

\* A 32-bit word is held as its two 16-bit halves [hi, lo].
Word(hi, lo) == [hi |-> hi, lo |-> lo]

WordXor(a, b) == Word(XorBits(a.hi, b.hi, 16), XorBits(a.lo, b.lo, 16))

WordNot(a) == Word(65535 - a.hi, 65535 - a.lo)

WordShr1(a) == Word(a.hi \div 2, (a.lo \div 2) + 32768 * (a.hi % 2))

\* the reflected IEEE 802.3 polynomial, 0xEDB88320
CrcPoly == Word(60856, 33568)

RECURSIVE CrcShift(_, _)
\* k rounds of: crc = (crc >> 1) ^ (poly if the low bit was set)
CrcShift(crc, k) ==
    IF k = 0 THEN crc
    ELSE IF crc.lo % 2 = 1
    THEN CrcShift(WordXor(WordShr1(crc), CrcPoly), k - 1)
    ELSE CrcShift(WordShr1(crc), k - 1)

RECURSIVE CrcBytes(_, _, _)
\* the running value after the first n bytes of buf
CrcBytes(crc, buf, n) ==
    IF n = 0 THEN crc
    ELSE CrcShift(WordXor(CrcBytes(crc, buf, n - 1), Word(0, buf[n])), 8)

\* uint32_t encoding_crc32(uint32_t crc, const uint8_t *buf, size_t len)
\* (libretro-common): the standard CRC-32, the running value complemented
\* on entry and on exit
encoding_crc32(crc, buf) == WordNot(CrcBytes(WordNot(crc), buf, Len(buf)))

-----------------------------------------------------------------------------
(* The session object (netplay_t)                                          *)

\* the null netplay_t pointer
NULL_NETPLAY == [null |-> TRUE]

\* a byte of storage that was allocated and never written
Indeterminate == -1

\* static netplay_t *netplay_new(void): calloc, then three fields set
netplay_new ==
    [ session                 |-> NULL,
      adapter                 |-> NULL,
      local_handle            |-> -1,
      running                 |-> TRUE,
      spectator               |-> FALSE,
      connected               |-> FALSE,
      session_started         |-> FALSE,
      allow_pausing           |-> FALSE,
      allow_timeskip          |-> FALSE,
      num_players             |-> 0,
      input_prediction_window |-> 0,
      spectator_delay         |-> 0,
      state_buffer            |-> <<>>,   \* state_size bytes; absent when empty
      state_size              |-> 0,
      authoritative_input     |-> <<>>,   \* authoritative_size bytes
      authoritative_size      |-> 0,
      authoritative_valid     |-> FALSE,
      local_input_mask        |-> 0,
      current_frame           |-> 0,
      tcp_port                |-> 0,
      ext_tcp_port            |-> 0,
      cbs                     |-> FALSE ]  \* the stored core callbacks are set

\* realloc(buf, size): the old bytes up to the smaller size, the rest unwritten
Realloc(buf, size) ==
    [i \in 1..size |-> IF i <= Len(buf) THEN buf[i] ELSE Indeterminate]

\* a refresh that accepts whatever size the core reports
RefreshAcceptsAnySize(s) ==
    [s EXCEPT !.log = Append(@, <<"serialize_size", world.serialize_size>>),
              !.np.state_buffer = Realloc(@, world.serialize_size),
              !.np.state_size = world.serialize_size,
              !.ret = TRUE]

\* static bool netplay_refresh_serialization(netplay_t *netplay)
netplay_refresh_serialization(s) ==
    LET size == world.serialize_size
        s1   == [s EXCEPT !.log = Append(@, <<"serialize_size", size>>)]
    IN
    IF size = 0 THEN [s1 EXCEPT !.ret = FALSE]
    ELSE IF size # s1.np.state_size
    THEN IF ~world.realloc_ok THEN [s1 EXCEPT !.ret = FALSE]
         ELSE [s1 EXCEPT !.np.state_buffer = Realloc(@, size),
                         !.np.state_size   = size,
                         !.ret = TRUE]
    ELSE [s1 EXCEPT !.ret = TRUE]

\* static void netplay_copy_authoritative_input(netplay, data, len);
\* data is the sequence of bytes behind the pointer, data_null a null pointer
netplay_copy_authoritative_input(np, data, data_null, len) ==
    IF len = 0 \/ data_null
    THEN [np EXCEPT !.authoritative_valid = FALSE]
    ELSE IF np.authoritative_size < len
    THEN IF ~world.realloc_ok
         THEN [np EXCEPT !.authoritative_valid = FALSE]
         ELSE [np EXCEPT !.authoritative_input = [i \in 1..len |-> data[i]],
                         !.authoritative_size  = len,
                         !.authoritative_valid = TRUE]
    ELSE [np EXCEPT !.authoritative_input =
                        [i \in 1..np.authoritative_size |->
                            IF i <= len THEN data[i] ELSE @[i]],
                    !.authoritative_valid = TRUE]

\* a mask lookup that also answers 0 for a port past the player count
PortMaskBoundedByPlayers(np, port) ==
    IF np = NULL_NETPLAY THEN 0
    ELSE IF ~np.authoritative_valid THEN 0
    ELSE IF port >= np.num_players THEN 0
    ELSE IF 2 * port + 2 > np.authoritative_size THEN 0
    ELSE np.authoritative_input[2 * port + 1]
           + 256 * np.authoritative_input[2 * port + 2]

\* static uint16_t netplay_get_port_mask(const netplay_t *netplay, unsigned port)
\* (memcpy into a uint16_t on a little-endian host)
netplay_get_port_mask(np, port) ==
    IF np = NULL_NETPLAY THEN 0
    ELSE IF ~np.authoritative_valid THEN 0
    ELSE IF np.authoritative_size = 0 THEN 0       \* the buffer is absent
    ELSE IF np.authoritative_size < 2 THEN 0
    ELSE LET offset == 2 * port IN
         IF offset + 2 > np.authoritative_size THEN 0
         ELSE np.authoritative_input[offset + 1]
                + 256 * np.authoritative_input[offset + 2]

-----------------------------------------------------------------------------
(* Input collection and the event pump                                     *)

RETRO_DEVICE_JOYPAD == 1

\* static const unsigned netplay_button_map[NETPLAY_BUTTON_COUNT]: the
\* libretro ids of B, Y, Select, Start, Up, Down, Left, Right, A, X, L, R,
\* L2, R2, L3, R3 (entry i of the table is at index i + 1 here)
netplay_button_map == <<0, 1, 2, 3, 4, 5, 6, 7, 8, 9, 10, 11, 12, 13, 14, 15>>

\* the core's stored state callback, netplay->cbs.state_cb: the hardware
\* state is in s.in (pad: the joypad ids held down, analog: the answer to
\* every other query)
StateCbValue(in, port, device, idx, id) ==
    IF device = RETRO_DEVICE_JOYPAD /\ idx = 0
    THEN IF id \in in.pad THEN 1 ELSE 0
    ELSE in.analog

\* the log entries of the loop of netplay_collect_local_input
CollectLog == [i \in 1..NETPLAY_BUTTON_COUNT |->
                 <<"state_cb", 0, RETRO_DEVICE_JOYPAD, 0, netplay_button_map[i]>>]

RECURSIVE MaskOf(_, _)
\* mask |= (1U << i) for every table entry i < n the callback reports held
MaskOf(in, n) ==
    IF n = 0 THEN 0
    ELSE MaskOf(in, n - 1)
           + (IF StateCbValue(in, 0, RETRO_DEVICE_JOYPAD, 0, netplay_button_map[n]) # 0
              THEN Pow2(n - 1) ELSE 0)

\* a collection that reads no button and submits nothing
CollectsNothing(s) == s

\* static void netplay_collect_local_input(netplay_t *netplay)
netplay_collect_local_input(s) ==
    LET mask == MaskOf(s.in, NETPLAY_BUTTON_COUNT)
        s1   == [s EXCEPT !.np.local_input_mask = mask,
                          !.log = @ \o CollectLog]
    IN
    IF s1.np.session # NULL /\ s1.np.local_handle >= 0
    THEN gekkonet_api_add_local_input(s1, s1.np.session, s1.np.local_handle, mask)
    ELSE s1

\* the bytes the core's serialize callback writes into a buffer of size bytes
CoreState(in, size) ==
    [i \in 1..size |-> in.core_state[((i - 1) % Len(in.core_state)) + 1]]

\* a core whose serialize callback never reports failure
CoreSerializeAlwaysSucceeds(s) == TRUE

\* if (!core_serialize_special(&info)): what the core's callback returns
core_serialize_special(s) == s.in.serialize_ok

\* static void netplay_handle_save_event(netplay, event)
netplay_handle_save_event(s, event) ==
    LET s1 == netplay_refresh_serialization(s) IN
    IF ~s1.ret THEN s1
    ELSE
      LET s2 == [s1 EXCEPT !.log = Append(@, <<"serialize", s1.np.state_size>>)] IN
      IF ~core_serialize_special(s2) THEN s2
      ELSE
        LET buf     == CoreState(s2.in, s2.np.state_size)
            payload == s2.np.state_size
            copy    == Min(payload, event.state_len)
            s3 == [s2 EXCEPT !.np.state_buffer = buf]
            s4 == IF event.has_state /\ event.has_len
                  THEN [s3 EXCEPT !.log = Append(@,
                          <<"save_state", SubSeq(buf, 1, copy), copy>>)]
                  ELSE s3
        IN
        IF event.has_checksum
        THEN [s4 EXCEPT !.log = Append(@,
                <<"save_checksum", encoding_crc32(Word(0, 0), SubSeq(buf, 1, payload))>>)]
        ELSE s4

\* static void netplay_handle_load_event(netplay, event)
netplay_handle_load_event(s, event) ==
    IF ~event.has_state \/ event.state_len = 0 THEN s
    ELSE [s EXCEPT !.log = Append(@,
             <<"unserialize", event.state, event.state_len>>)]

\* one iteration of the loop of netplay_handle_game_events
GameEventStep(s, event) ==
    CASE event.type = "null" -> s
      [] event.type = "AdvanceEvent" ->
           [s EXCEPT !.np = netplay_copy_authoritative_input(
                               [@ EXCEPT !.current_frame = event.frame],
                               event.inputs, event.inputs_null, event.input_len),
                     !.hist.advance =
                         [seen |-> TRUE,
                          payload |-> IF event.inputs_null THEN <<>>
                                      ELSE SubSeq(event.inputs, 1, event.input_len)],
                     !.log = Append(@, <<"dispatch_game", event>>)]
      [] event.type = "SaveEvent" ->
           netplay_handle_save_event(
               [s EXCEPT !.log = Append(@, <<"dispatch_game", event>>)], event)
      [] event.type = "LoadEvent" ->
           netplay_handle_load_event(
               [s EXCEPT !.log = Append(@, <<"dispatch_game", event>>)], event)
      [] OTHER -> [s EXCEPT !.log = Append(@, <<"dispatch_game", event>>)]

RECURSIVE GameEventLoop(_, _, _, _)
GameEventLoop(s, events, i, count) ==
    IF count <= 0 THEN s
    ELSE GameEventLoop(GameEventStep(s, events[i]), events, i + 1, count - 1)

\* static void netplay_handle_game_events(netplay_t *netplay)
netplay_handle_game_events(s) ==
    IF s.np.session = NULL THEN s
    ELSE LET s1 == gekkonet_load_library(s) IN
         \* gekkonet_api_update_session returns NULL when the loader fails
         IF ~s1.ret THEN s1
         ELSE LET s2 == [s1 EXCEPT !.log = Append(@, <<"update_session", s1.np.session>>)]
              IN  IF s2.in.game.null THEN s2
                  ELSE GameEventLoop(s2, s2.in.game.events, 1, s2.in.game.count)

\* a status update that leaves the sync counters as they were
StatusSetKeepsCounters(net, status, current, total) ==
    [net EXCEPT !.session_status = status]

\* static void netplay_session_status_set(status, current, total)
netplay_session_status_set(net, status, current, total) ==
    [net EXCEPT !.session_status       = status,
                !.session_sync_current = current,
                !.session_sync_total   = total]

\* msg_hash_to_str of the three labels the file uses
MSG_NOT_AVAILABLE == "N/A"
MSG_NETPLAY_STATUS_PLAYING == "Playing"
MSG_NETPLAY_STATUS_SPECTATING == "Spectating"

\* a reset that leaves the status as it was
StatusKept(net) == net

\* static void netplay_session_status_reset(void)
netplay_session_status_reset(net) ==
    netplay_session_status_set(net, MSG_NOT_AVAILABLE, 0, 0)

\* a test that takes every disconnected handle for the local actor's
DisconnectedAlwaysLocal(np, event) == TRUE

\* if (event->data.disconnected.handle == netplay->local_handle)
DisconnectedIsLocal(np, event) == event.a = np.local_handle

\* one iteration of the loop of netplay_handle_session_events
SessionEventStep(s, event) ==
    LET s0 == [s EXCEPT !.log = Append(@, <<"dispatch_session", event>>)] IN
    CASE event.type = "null" -> s
      [] event.type = "PlayerSyncing" ->
           [s0 EXCEPT !.np.connected = TRUE,
                      !.net = netplay_session_status_set(@,
                          "Syncing players (" \o ToString(event.a) \o "/"
                             \o ToString(event.b) \o ")", event.a, event.b)]
      [] event.type = "SessionStarted" ->
           [s0 EXCEPT !.np.session_started = TRUE,
                      !.np.connected = TRUE,
                      !.net = netplay_session_status_set(@,
                          MSG_NETPLAY_STATUS_PLAYING, 0, 0)]
      [] event.type = "PlayerConnected" ->
           [s0 EXCEPT !.np.connected = TRUE,
                      !.net = netplay_session_status_set(@,
                          "Peer connected (handle " \o ToString(event.a) \o ")", 0, 0)]
      [] event.type = "PlayerDisconnected" ->
           [s0 EXCEPT !.np.connected =
                          IF DisconnectedIsLocal(s.np, event) THEN FALSE ELSE @,
                      !.net = netplay_session_status_set(@,
                          "Peer disconnected (handle " \o ToString(event.a) \o ")", 0, 0)]
      [] event.type = "SpectatorPaused" ->
           [s0 EXCEPT !.np.spectator = TRUE,
                      !.net = netplay_session_status_set(@,
                          MSG_NETPLAY_STATUS_SPECTATING, 0, 0)]
      [] event.type = "SpectatorUnpaused" ->
           [s0 EXCEPT !.np.spectator = FALSE,
                      !.net = netplay_session_status_set(@,
                          MSG_NETPLAY_STATUS_PLAYING, 0, 0)]
      [] event.type = "DesyncDetected" ->
           [s0 EXCEPT !.net = netplay_session_status_set(@,
                          "Desync detected (frame " \o ToString(event.a) \o ")", 0, 0)]
      [] OTHER -> s0

RECURSIVE SessionEventLoop(_, _, _, _)
SessionEventLoop(s, events, i, count) ==
    IF count <= 0 THEN s
    ELSE SessionEventLoop(SessionEventStep(s, events[i]), events, i + 1, count - 1)

\* static void netplay_handle_session_events(netplay_t *netplay)
netplay_handle_session_events(s) ==
    IF s.np.session = NULL THEN s
    ELSE LET s1 == gekkonet_load_library(s) IN
         IF ~s1.ret THEN s1
         ELSE LET s2 == [s1 EXCEPT !.log = Append(@, <<"session_events", s1.np.session>>)]
              IN  IF s2.in.sess.null THEN s2
                  ELSE SessionEventLoop(s2, s2.in.sess.events, 1, s2.in.sess.count)

\* a pump that drains the session events first
PumpSessionEventsFirst(s) ==
    netplay_handle_game_events(netplay_handle_session_events(s))

\* static void netplay_pump_events(netplay_t *netplay)
netplay_pump_events(s) ==
    netplay_handle_session_events(netplay_handle_game_events(s))

\* a stats step that asks the engine nothing
StatsNotRefreshed(s) == s

\* static void netplay_update_network_stats(netplay_t *netplay)
netplay_update_network_stats(s) ==
    IF s.np.session = NULL THEN s
    ELSE LET s1 == gekkonet_load_library(s) IN
         \* without the library the stats record stays unwritten
         IF ~s1.ret THEN [s1 EXCEPT !.net.latest_ping = s.in.garbage]
         ELSE [s1 EXCEPT !.net.latest_ping = s.in.ping,
                         !.log = Append(@, <<"network_stats", s1.np.session,
                                             s1.np.local_handle>>)]

\* static bool netplay_pre_frame(netplay_t *netplay); s.np is the argument
netplay_pre_frame(s) ==
    IF s.np = NULL_NETPLAY THEN [s EXCEPT !.ret = TRUE]
    ELSE IF ~s.np.running THEN [s EXCEPT !.ret = FALSE]
    ELSE [netplay_pump_events(netplay_collect_local_input(s)) EXCEPT !.ret = TRUE]

\* static void netplay_post_frame(netplay_t *netplay)
netplay_post_frame(s) ==
    IF s.np = NULL_NETPLAY THEN s
    ELSE IF ~s.np.running THEN s
    ELSE LET s1 == netplay_update_network_stats(netplay_pump_events(s)) IN
         IF s1.np.session # NULL
         THEN gekkonet_api_network_poll(s1, s1.np.session)
         ELSE s1

-----------------------------------------------------------------------------
(* Host diagnostics                                                        *)

\* netplay_host_diagnostics_t after memset(&diag, 0, sizeof(diag))
DiagZero ==
    [ requested_port                  |-> 0,
      resolved_port                   |-> 0,
      port_probe_supported            |-> FALSE,
      initial_probe_available         |-> FALSE,
      initial_probe_verified          |-> FALSE,
      fallback_scan_attempted         |-> FALSE,
      fallback_succeeded              |-> FALSE,
      fallback_attempts               |-> 0,
      fallback_aborted_on_wrap        |-> FALSE,
      fallback_aborted_on_unverified  |-> FALSE,
      netplay_driver_enabled          |-> FALSE,
      netplay_driver_auto_enabled     |-> FALSE,
      netplay_driver_request_client   |-> FALSE,
      netplay_state_allocated         |-> FALSE,
      core_callbacks_ready            |-> FALSE,
      netplay_callbacks_ready         |-> FALSE,
      serialization_ready             |-> FALSE,
      session_created                 |-> FALSE,
      settings_applied                |-> FALSE,
      adapter_acquired                |-> FALSE,
      session_started                 |-> FALSE,
      local_actor_registered          |-> FALSE,
      gekkonet_dynamic_load_attempted |-> FALSE,
      gekkonet_module_loaded          |-> FALSE,
      gekkonet_symbols_resolved       |-> FALSE,
      gekkonet_module_path            |-> "",
      failure_stage                   |-> "",
      failure_reason                  |-> "" ]

\* static void netplay_host_diag_capture_gekkonet_state(diag)
netplay_host_diag_capture_gekkonet_state(s) ==
    [s EXCEPT
       !.diag.gekkonet_dynamic_load_attempted =
            s.api.module # NULL \/ s.api.attempted_load \/ s.api.load_failed,
       !.diag.gekkonet_module_loaded    = s.api.module # NULL,
       !.diag.gekkonet_symbols_resolved = s.api.module # NULL /\ ~s.api.load_failed,
       !.diag.gekkonet_module_path      = s.api.module_path]

\* a failure that records no stage and no reason
SetupFailUnnamed(s, stage, reason) ==
    [netplay_host_diag_capture_gekkonet_state(s) EXCEPT !.ret = FALSE]

\* strlcpy into failure_stage and failure_reason, then netplay_host_fail
SetupFail(s, stage, reason) ==
    [netplay_host_diag_capture_gekkonet_state(
        [s EXCEPT !.diag.failure_stage = stage, !.diag.failure_reason = reason])
     EXCEPT !.ret = FALSE]

\* static void netplay_host_diag_dump(diag): the one record an init emits,
\* after asking the library for its last error when that symbol is bound
netplay_host_diag_dump(s) ==
    [s EXCEPT !.log = @ \o (IF s.api.last_error THEN <<<<"last_error">>>> ELSE <<>>)
                        \o <<<<"diag_dump", s.diag>>>>]

-----------------------------------------------------------------------------
(* Building a session                                                      *)

DEFAULT_NETPLAY_DESYNC_HANDLING == "auto"

Clamp255(x) == IF x <= 255 THEN x ELSE 255

\* static bool netplay_apply_settings(netplay, settings, diag)
netplay_apply_settings(s) ==
    LET mode == IF s.cfg.netplay_desync_handling = ""
                THEN DEFAULT_NETPLAY_DESYNC_HANDLING
                ELSE s.cfg.netplay_desync_handling
        s1 == [s EXCEPT
                 !.np.allow_pausing  = s.cfg.netplay_allow_pausing,
                 !.np.allow_timeskip = mode \in {"auto", "rollback"},
                 !.np.num_players    = Clamp255(s.cfg.input_max_users),
                 !.np.input_prediction_window =
                                       Clamp255(s.cfg.netplay_prediction_window),
                 !.np.spectator_delay = Clamp255(s.cfg.netplay_local_delay)]
        s2 == netplay_refresh_serialization(s1)
    IN
    IF ~s2.ret THEN s2
    ELSE [s2 EXCEPT !.diag.serialization_ready = TRUE, !.ret = TRUE]

\* a loop that allows one more probe
FallbackContinuesOneMore(probe_index) == probe_index < MaxProbes + 1

\* the body of the fallback loop for probe_index < max_probes
FallbackContinues(probe_index) == probe_index < MaxProbes

\* a scan that steps by two ports
NextProbePortSkipping(probe_port) == (probe_port + 2) % U16

\* probe_port = (unsigned short)(probe_port + 1)
NextProbePort(probe_port) == (probe_port + 1) % U16

\* a wrap test that never fires
ProbeNeverWrapped(probe_port) == FALSE

\* if (!probe_port): the search wrapped past port 65535
ProbeWrapped(probe_port) == probe_port = 0

\* a scan that takes every candidate for verified
CandidateNeverUnverified(o) == FALSE

\* if (!candidate_verified): the platform could not tell free from taken
CandidateUnverified(o) == ~o.verified

RECURSIVE FallbackScan(_, _, _)
\* the for loop of lines 1707-1746; r holds the locals and the diag fields
\* it writes
FallbackScan(probe_index, probe_port, r) ==
    IF ~FallbackContinues(probe_index) THEN r
    ELSE
      LET p == NextProbePort(probe_port) IN
      IF ProbeWrapped(p) THEN [r EXCEPT !.aborted_on_wrap = TRUE]
      ELSE
        LET o  == netplay_udp_port_available(p)
            r1 == [r EXCEPT !.attempts = probe_index + 1,
                            !.log = Append(@, <<"probe", p, o>>)]
        IN
        IF o.available /\ o.verified
        THEN [r1 EXCEPT !.udp_port = p, !.verified = TRUE, !.available = TRUE,
                        !.selected = TRUE, !.succeeded = TRUE, !.supported = TRUE]
        ELSE IF CandidateUnverified(o)
        THEN [r1 EXCEPT !.verified = FALSE, !.aborted_on_unverified = TRUE]
        ELSE FallbackScan(probe_index + 1, p, r1)

\* if (!port_available && port_verified): the scan runs
FallbackScanNeeded(o) == ~o.available /\ o.verified

\* lines 1678-1747: the initial probe and the fallback scan
PortSelection(udp_port) ==
    LET o  == netplay_udp_port_available(udp_port)
        r0 == [ udp_port  |-> udp_port,
                available |-> o.available,
                verified  |-> o.verified,
                supported |-> o.verified,
                initial   |-> o,
                scan_attempted        |-> FALSE,
                selected              |-> FALSE,
                succeeded             |-> FALSE,
                attempts              |-> 0,
                aborted_on_wrap       |-> FALSE,
                aborted_on_unverified |-> FALSE,
                log |-> << <<"probe", udp_port, o>> >> ]
    IN
    IF FallbackScanNeeded(o)
    THEN FallbackScan(0, udp_port, [r0 EXCEPT !.scan_attempted = TRUE])
    ELSE r0

\* GekkoConfig cfg as netplay_setup_session fills it
EngineConfig(s) ==
    [ num_players             |-> s.np.num_players,
      max_spectators          |-> Clamp255(s.cfg.netplay_spectator_limit),
      input_prediction_window |-> s.np.input_prediction_window,
      spectator_delay         |-> s.np.spectator_delay,
      input_size              |-> 2,
      state_size              |-> s.np.state_size,
      limited_saving          |-> FALSE,
      post_sync_joining       |-> TRUE,
      desync_detection        |-> TRUE ]

\* lines 1803-1821: s is the bundle after gekkonet_api_add_actor, whose
\* answer is in s.out
SetupActor(s) ==
    LET s1 == [s EXCEPT !.np.local_handle = s.out] IN
    IF s1.np.local_handle < 0
    THEN SetupFail(s1, "register_local_actor",
                   "gekkonet_api_add_actor returned a negative handle")
    ELSE [netplay_host_diag_capture_gekkonet_state(
             [s1 EXCEPT !.diag.local_actor_registered = TRUE])
          EXCEPT !.ret = TRUE]

\* a setup that starts the engine session before it hands it the adapter
SetupStartsBeforeAdapterSet(s, cfg) ==
    IF s.out = NULL
    THEN SetupFail([s EXCEPT !.np.adapter = NULL], "adapter_initialisation",
                   "gekkonet_api_default_adapter returned NULL")
    ELSE SetupActor(
           gekkonet_api_add_actor(
             gekkonet_api_net_adapter_set(
               [gekkonet_api_start(
                  [s EXCEPT !.np.adapter = s.out, !.diag.adapter_acquired = TRUE],
                  s.np.session, cfg)
                EXCEPT !.diag.session_started = TRUE],
               s.np.session, s.out),
             s.np.session))

\* lines 1777-1803: s is the bundle after gekkonet_api_default_adapter,
\* whose answer is in s.out; adapter check, adapter set, start, add actor
SetupStart(s, cfg) ==
    IF s.out = NULL
    THEN SetupFail([s EXCEPT !.np.adapter = NULL], "adapter_initialisation",
                   "gekkonet_api_default_adapter returned NULL")
    ELSE SetupActor(
           gekkonet_api_add_actor(
             [gekkonet_api_start(
                gekkonet_api_net_adapter_set(
                  [s EXCEPT !.np.adapter = s.out, !.diag.adapter_acquired = TRUE],
                  s.np.session, s.out),
                s.np.session, cfg)
              EXCEPT !.diag.session_started = TRUE],
             s.np.session))

\* a setup that writes the port it resolved on every path
PersistsAnyPort(r) == TRUE

\* lines 1763-1770: the port is verified and a fallback candidate was
\* selected
FallbackPersisted(r) == r.verified /\ r.selected

\* lines 1673-1779: s is the bundle after netplay_apply_settings, r the
\* outcome of the port selection; the verdict on the port, the
\* configuration write and the adapter request
SetupPort(s, r) ==
    IF ~s.ret
    THEN SetupFail(s, "apply_settings", "netplay_apply_settings returned false")
    ELSE
      LET s1 == [s EXCEPT
                   !.diag.settings_applied        = TRUE,
                   !.diag.initial_probe_available = r.initial.available,
                   !.diag.initial_probe_verified  = r.initial.verified,
                   !.diag.port_probe_supported    = r.supported,
                   !.diag.fallback_scan_attempted = r.scan_attempted,
                   !.diag.fallback_attempts       = r.attempts,
                   !.diag.fallback_succeeded      = r.succeeded,
                   !.diag.fallback_aborted_on_wrap = r.aborted_on_wrap,
                   !.diag.fallback_aborted_on_unverified = r.aborted_on_unverified,
                   !.log = @ \o r.log]
      IN
      IF ~r.available /\ r.verified
      THEN SetupFail(s1, "port_selection",
                     "no verified UDP ports available within fallback window")
      ELSE
        SetupStart(
          gekkonet_api_default_adapter(
            [s1 EXCEPT
               !.cfg.netplay_port = IF FallbackPersisted(r) THEN r.udp_port ELSE @,
               !.log = IF FallbackPersisted(r)
                       THEN Append(@, <<"configuration_set_uint",
                                        "netplay_port", r.udp_port>>)
                       ELSE @,
               !.np.tcp_port        = r.udp_port,
               !.np.ext_tcp_port    = r.udp_port,
               !.diag.resolved_port = r.udp_port],
            r.udp_port),
          EngineConfig(s))

\* lines 1655-1671: s is the bundle after the session handle was obtained
\* (s.ret) and stored (s.out)
SetupSettings(s, udp_port) ==
    IF ~s.ret
    THEN SetupFail([s EXCEPT !.np.session = s.out], "session_create",
                   "libGekkoNet session handle creation failed")
    ELSE SetupPort(
           netplay_apply_settings(
             netplay_host_diag_capture_gekkonet_state(
               [s EXCEPT !.np.session = s.out, !.diag.session_created = TRUE])),
           PortSelection(udp_port))

\* static bool netplay_setup_session(netplay, settings, port_in_out, diag)
netplay_setup_session(s, port) ==
    LET requested_port == IF port # 0 THEN port ELSE s.cfg.netplay_port
        udp_port       == requested_port % U16
        s0 == [s EXCEPT !.diag.requested_port = requested_port,
                        !.diag.resolved_port  = udp_port]
    IN
    SetupSettings(IF s0.np.session = NULL
                  THEN gekkonet_api_create(s0)
                  ELSE [s0 EXCEPT !.ret = TRUE, !.out = s0.np.session],
                  udp_port)

\* static void netplay_reset_state(netplay_t *netplay)
netplay_reset_state(s) ==
    [s EXCEPT !.np.connected           = FALSE,
              !.np.session_started     = FALSE,
              !.np.authoritative_valid = FALSE,
              !.np.current_frame       = 0,
              !.net = netplay_session_status_reset(@)]

\* a begin that resets the session and the status whatever the setup
\* returned
BeginResetAlways(s) == [netplay_reset_state(s) EXCEPT !.ret = s.ret]

\* lines 1863-1867: s is the bundle after netplay_setup_session
BeginReset(s) ==
    IF ~s.ret THEN s
    ELSE [netplay_reset_state(s) EXCEPT !.ret = TRUE]

\* static bool netplay_begin_session(netplay, server, port, diag)
netplay_begin_session(s, port) == BeginReset(netplay_setup_session(s, port))

\* a free that releases the session object and forgets its engine handle
NetplayFreeLeaksHandle(s) == [s EXCEPT !.np = NULL_NETPLAY]

\* static void netplay_free(netplay_t *netplay); s.np is the argument
netplay_free(s) ==
    IF s.np = NULL_NETPLAY THEN s
    ELSE [(IF s.np.session # NULL
           THEN gekkonet_api_destroy(s, s.np.session)
           ELSE s)
          EXCEPT !.np = NULL_NETPLAY]

-----------------------------------------------------------------------------
(* The driver: teardown, control dispatcher, init, input bridge            *)

\* networking_driver_st as zero-initialised static storage; data is the
\* session the slot owns
NetZero ==
    [ data                     |-> NULL_NETPLAY,
      enabled                  |-> FALSE,   \* NET_DRIVER_ST_FLAG_NETPLAY_ENABLED
      is_client                |-> FALSE,   \* NET_DRIVER_ST_FLAG_NETPLAY_IS_CLIENT
      client_deferred          |-> FALSE,   \* ..._NETPLAY_CLIENT_DEFERRED
      server_address_deferred  |-> "",
      server_port_deferred     |-> 0,
      session_status           |-> "",
      session_sync_current     |-> 0,
      session_sync_total       |-> 0,
      latest_ping              |-> 0,
      core_netpacket_interface |-> FALSE ]  \* the owned copy is allocated

\* void core_unset_netplay_callbacks(void) (core.c)
core_unset_netplay_callbacks(s) ==
    [s EXCEPT !.core.netplay_callbacks = FALSE,
              !.log = Append(@, <<"core_unset_netplay_callbacks">>)]

\* void deinit_netplay(void); inside a bundle net.data says whether the
\* slot points at the session object np
deinit_netplay(s) ==
    LET s1 == IF s.net.data
              THEN [netplay_free(s) EXCEPT !.net.data = FALSE]
              ELSE s
        s2 == [s1 EXCEPT !.net = netplay_session_status_reset(
                                     [@ EXCEPT !.enabled     = FALSE,
                                               !.is_client   = FALSE,
                                               !.latest_ping = -1]),
                         !.log = Append(@, <<"preempt_init">>)]
    IN  core_unset_netplay_callbacks(s2)

\* the control states that collapse to deinit_netplay
TeardownStates ==
    { "PAUSE", "UNPAUSE", "GAME_WATCH", "PLAYER_CHAT", "REFRESH_CLIENT_INFO",
      "IS_REPLAYING", "LOAD_SAVESTATE", "RESET", "DISCONNECT" }

\* the control states that only return false
StubStates ==
    { "FINISHED_NAT_TRAVERSAL", "DESYNC_PUSH", "DESYNC_POP", "KICK_CLIENT",
      "BAN_CLIENT", "ADD_FORK_ARG", "GET_FORK_ARGS", "CLEAR_FORK_ARGS", "NONE" }

\* an IS_ENABLED that answers with the driver's enabled flag
CtlIsEnabledByFlag(s) == s.net.enabled

\* case RARCH_NETPLAY_CTL_IS_ENABLED
CtlIsEnabled(s) == s.net.data /\ s.np.running

\* a disable that does not look at the slot
CtlDisableUnguarded(s) == [s EXCEPT !.net.enabled = FALSE, !.ret = TRUE]

\* case RARCH_NETPLAY_CTL_DISABLE
CtlDisable(s) ==
    IF s.net.data THEN [s EXCEPT !.ret = FALSE]
    ELSE [s EXCEPT !.net.enabled = FALSE, !.ret = TRUE]

\* a teardown that does not look at the slot
CtlTeardownAlways(s) == [deinit_netplay(s) EXCEPT !.ret = TRUE]

\* lines 2094-2106: the nine states that tear the session down
CtlTeardown(s) ==
    IF ~s.net.data THEN [s EXCEPT !.ret = FALSE]
    ELSE [deinit_netplay(s) EXCEPT !.ret = TRUE]

\* bool netplay_driver_ctl(enum rarch_netplay_ctl_state state, void *data)
netplay_driver_ctl(s, state, data) ==
    CASE state = "ENABLE_SERVER" ->
           [s EXCEPT !.net.enabled = TRUE, !.net.is_client = FALSE, !.ret = TRUE]
      [] state = "ENABLE_CLIENT" ->
           [s EXCEPT !.net.enabled = TRUE, !.net.is_client = TRUE, !.ret = TRUE]
      [] state = "DISABLE" -> CtlDisable(s)
      [] state = "PRE_FRAME" -> netplay_pre_frame(s)
      [] state = "POST_FRAME" -> [netplay_post_frame(s) EXCEPT !.ret = TRUE]
      [] state = "IS_ENABLED" -> [s EXCEPT !.ret = CtlIsEnabled(s)]
      [] state = "IS_CONNECTED" ->
           [s EXCEPT !.ret = s.net.data /\ s.np.connected]
      [] state = "IS_SERVER" ->
           [s EXCEPT !.ret = s.net.data /\ s.np.local_handle >= 0
                               /\ ~s.net.is_client]
      [] state = "IS_PLAYING" ->
           [s EXCEPT !.ret = s.net.data /\ s.np.connected /\ ~s.np.spectator]
      [] state = "IS_SPECTATING" ->
           [s EXCEPT !.ret = s.net.data /\ s.np.spectator]
      [] state = "IS_DATA_INITED" ->
           [s EXCEPT !.ret = s.net.data /\ s.np.session_started]
      [] state = "ALLOW_PAUSE" ->
           [s EXCEPT !.ret = IF s.net.data THEN s.np.allow_pausing ELSE FALSE]
      [] state = "ALLOW_TIMESKIP" ->
           [s EXCEPT !.ret = IF s.net.data THEN s.np.allow_timeskip ELSE FALSE]
      [] state \in TeardownStates -> CtlTeardown(s)
      [] state = "SET_CORE_PACKET_INTERFACE" ->
           IF data = NULL
           THEN [s EXCEPT !.net.core_netpacket_interface = FALSE, !.ret = TRUE]
           ELSE IF ~world.alloc_ok
           THEN [s EXCEPT !.net.core_netpacket_interface = FALSE, !.ret = FALSE]
           ELSE [s EXCEPT !.net.core_netpacket_interface = TRUE, !.ret = TRUE]
      [] state = "USE_CORE_PACKET_INTERFACE" ->
           [s EXCEPT !.ret = s.net.core_netpacket_interface]
      [] state = "GET_SESSION_STATUS" ->
           IF data = NULL THEN [s EXCEPT !.ret = FALSE]
           ELSE [s EXCEPT !.ret = TRUE,
                          !.status = [message |-> s.net.session_status,
                                      session_sync_current |-> s.net.session_sync_current,
                                      session_sync_total   |-> s.net.session_sync_total]]
      [] OTHER -> [s EXCEPT !.ret = FALSE]

\* bool netplay_reinit_serialization(void)
netplay_reinit_serialization(s) ==
    IF ~s.net.data THEN [s EXCEPT !.ret = FALSE]
    ELSE netplay_refresh_serialization(s)

\* a null char pointer
NULL_STR == "(null)"

\* a preflight test that never finds a session
InitPreflightNever(s) == FALSE

\* if (net_st->data): the preflight test of init_netplay
InitPreflightActive(s) == s.net.data

\* a cleanup that only dumps the diagnostics
InitCleanupDumpOnly(s, success, callbacks_set) ==
    [netplay_host_diag_dump(s) EXCEPT !.ret = success]

\* lines 1993-2004: dump the diagnostics; on failure free the session and
\* unset the callbacks this call installed
InitCleanup(s, success, callbacks_set) ==
    LET s1 == netplay_host_diag_dump(s) IN
    IF success THEN [s1 EXCEPT !.ret = TRUE]
    ELSE LET s2 == IF s1.allocated THEN netplay_free(s1) ELSE s1 IN
         [(IF callbacks_set THEN core_unset_netplay_callbacks(s2) ELSE s2)
          EXCEPT !.ret = FALSE]

InitFail(s, stage, reason, callbacks_set) ==
    InitCleanup([s EXCEPT !.diag.failure_stage = stage,
                          !.diag.failure_reason = reason],
                FALSE, callbacks_set)

\* an init that reports the outcome and publishes nothing
InitPublishesNothing(s) == InitCleanup(s, s.ret, TRUE)

\* lines 1973-1991: s is the bundle after netplay_begin_session; publish
\* the session or report the failure
InitPublish(s) ==
    IF ~s.ret
    THEN InitCleanup(
           [s EXCEPT
              !.diag.failure_stage  = IF @ = "" THEN "session_init" ELSE @,
              !.diag.failure_reason = IF @ = ""
                     THEN "netplay_begin_session returned false" ELSE @],
           FALSE, TRUE)
    ELSE InitCleanup([s EXCEPT !.net.data = TRUE,
                               !.net.latest_ping = -1,
                               !.net.client_deferred = FALSE],
                     TRUE, TRUE)

\* lines 1958-1973: allocate the session and build it
InitSession(s, port) ==
    IF ~world.alloc_ok
    THEN InitFail(s, "allocate_state", "netplay_new returned NULL", TRUE)
    ELSE InitPublish(
           netplay_begin_session(
             [s EXCEPT !.np = [netplay_new EXCEPT !.cbs = TRUE],
                       !.hist.advance = HistoryZero.advance,
                       !.allocated = TRUE,
                       !.diag.netplay_state_allocated = TRUE],
             port))

\* lines 1933-1956: the core callbacks
InitCallbacks(s, port) ==
    LET s1 == [s EXCEPT !.log = Append(@, <<"core_set_default_callbacks">>)] IN
    IF ~world.cb_default_ok
    THEN InitFail(s1, "core_callbacks",
                  "core_set_default_callbacks returned false", FALSE)
    ELSE
      LET s2 == [s1 EXCEPT !.diag.core_callbacks_ready = TRUE,
                           !.log = Append(@, <<"core_set_netplay_callbacks">>)]
      IN
      IF ~world.cb_netplay_ok
      THEN InitFail(s2, "netplay_callbacks",
                    "core_set_netplay_callbacks returned false", FALSE)
      ELSE InitSession([s2 EXCEPT !.core.netplay_callbacks = TRUE,
                                  !.diag.netplay_callbacks_ready = TRUE],
                       port)

\* static bool netplay_can_start(void)
netplay_can_start(s) == s.net.enabled

\* lines 1909-1931: when the driver was not enabled, s is the bundle after
\* the netplay_driver_ctl call that enables it
InitEnabled(s, port, was_enabled) ==
    LET s1 == IF was_enabled THEN s
              ELSE [s EXCEPT !.diag.netplay_driver_auto_enabled = s.ret,
                             !.diag.netplay_driver_enabled = netplay_can_start(s)]
    IN
    IF ~was_enabled /\ (~s.ret \/ ~s1.diag.netplay_driver_enabled)
    THEN InitFail(s1, "enable_driver",
                  "failed to enable requested netplay driver", FALSE)
    ELSE InitCallbacks(s1, port)

\* bool init_netplay(const char *server, unsigned port, const char *mitm_session)
init_netplay(s, server, port) ==
    LET want_client == (server # NULL_STR /\ server # "") \/ s.net.is_client
        s0 == [s EXCEPT !.diag = [DiagZero EXCEPT
                                    !.netplay_driver_request_client = want_client,
                                    !.netplay_driver_enabled = netplay_can_start(s)]]
    IN
    IF InitPreflightActive(s0)
    THEN InitFail(s0, "preflight_active_session", "net_st->data already set", FALSE)
    ELSE InitEnabled(
           IF s0.diag.netplay_driver_enabled THEN s0
           ELSE netplay_driver_ctl(s0,
                   IF want_client THEN "ENABLE_CLIENT" ELSE "ENABLE_SERVER", NULL),
           port, s0.diag.netplay_driver_enabled)

\* bool init_netplay_deferred(const char *server, unsigned port, mitm_session)
init_netplay_deferred(s, server, port) ==
    IF server = NULL_STR THEN [s EXCEPT !.ret = FALSE]
    ELSE [s EXCEPT !.net.server_address_deferred = server,
                   !.net.server_port_deferred    = port,
                   !.net.client_deferred         = TRUE,
                   !.ret = TRUE]

\* a lookup that falls back to the first table entry
ButtonIndexDefaultsToFirst(id) ==
    LET hit == {i \in 1..NETPLAY_BUTTON_COUNT : netplay_button_map[i] = id}
    IN  IF hit = {} THEN 1 ELSE CHOOSE i \in hit : \A j \in hit : i <= j

\* the index i of the first table entry equal to id, 0 when there is none
ButtonIndex(id) ==
    LET hit == {i \in 1..NETPLAY_BUTTON_COUNT : netplay_button_map[i] = id}
    IN  IF hit = {} THEN 0 ELSE CHOOSE i \in hit : \A j \in hit : i <= j

\* a mask test that never answers from the authoritative view
InputNeverJoypad(device, idx) == FALSE

\* the device and index for which the authoritative mask answers
InputIsJoypadZero(device, idx) == device = RETRO_DEVICE_JOYPAD /\ idx = 0

\* int16_t input_state_net(unsigned port, unsigned device, unsigned idx,
\* unsigned id); the value is returned in out
input_state_net(s, port, device, idx, id) ==
    IF ~s.net.data THEN [s EXCEPT !.out = 0]
    ELSE IF ~s.np.running THEN [s EXCEPT !.out = 0]
    ELSE
      LET i == IF InputIsJoypadZero(device, idx) THEN ButtonIndex(id) ELSE 0 IN
      IF i # 0
      THEN [s EXCEPT !.out = Bit(netplay_get_port_mask(s.np, port), i - 1)]
      ELSE [s EXCEPT !.out = StateCbValue(s.in, port, device, idx, id),
                     !.log = Append(@, <<"state_cb", port, device, idx, id>>)]

-----------------------------------------------------------------------------
(* The external collaborators                                              *)

AllSymbols == SeqToSet(RequiredSymbols)

\* a library that opens from the executable's directory and exports all
GoodLib ==
    [ exe_path   |-> TRUE,            \* /proc/self/exe could be resolved
      absolute   |-> TRUE,            \* dlopen of the absolute path succeeds
      bare       |-> TRUE,            \* dlopen("libGekkoNet.so") succeeds
      exports    |-> AllSymbols,      \* the required symbols it exports
      last_error |-> "gekko_last_error" ]

\* no library anywhere
NoLib == [GoodLib EXCEPT !.absolute = FALSE, !.bare = FALSE]

\* the library files a process may find
Libs ==
    { GoodLib, NoLib,
      [GoodLib EXCEPT !.absolute = FALSE, !.last_error = "none"],
      [GoodLib EXCEPT !.exe_path = FALSE, !.last_error = "gekko_get_last_error"],
      [NoLib EXCEPT !.exe_path = FALSE] }
    \cup { [GoodLib EXCEPT !.exports = AllSymbols \ {sym}] :
              sym \in {"create", "start", "default_adapter"} }

Outcomes == {"free", "busy", "unverified"}

\* every port reports the same
UdpAll(outcome) ==
    [at |-> 0, below |-> outcome, here |-> outcome, above |-> outcome]

NominalWorld ==
    [ lib            |-> GoodLib,
      udp            |-> UdpAll("free"),
      create_ok      |-> TRUE,     \* gekko_create succeeds
      adapter_ok     |-> TRUE,     \* gekko_default_adapter returns an adapter
      actor          |-> 0,        \* what gekko_add_actor returns
      serialize_size |-> 4,        \* core_serialize_size_special()
      realloc_ok     |-> TRUE,
      alloc_ok       |-> TRUE,     \* calloc and malloc succeed
      cb_default_ok  |-> TRUE,     \* core_set_default_callbacks
      cb_netplay_ok  |-> TRUE ]    \* core_set_netplay_callbacks

NoEvents == [events |-> <<>>, null |-> TRUE, count |-> 0]

\* the inputs of a call that reads none
NoInput ==
    [ game           |-> NoEvents,   \* what gekko_update_session returns
      sess           |-> NoEvents,   \* what gekko_session_events returns
      ping           |-> 0,          \* stats.last_ping
      garbage        |-> 0,          \* the content of an unwritten stats record
      pad            |-> {},         \* joypad ids held down
      analog         |-> 0,          \* the state callback's other answers
      serialize_ok   |-> TRUE,
      core_state     |-> <<0>>,
      unserialize_ok |-> TRUE ]

SettingsDefault ==
    [ netplay_port              |-> 55435,
      netplay_allow_pausing     |-> FALSE,
      netplay_desync_handling   |-> "",
      input_max_users           |-> 2,
      netplay_prediction_window |-> 4,
      netplay_local_delay       |-> 0,
      netplay_spectator_limit   |-> 0 ]

-----------------------------------------------------------------------------
(* Operations as actions                                                   *)

LastNone ==
    [ op |-> "none", args |-> <<>>, ret |-> FALSE, out |-> 0,
      status |-> [message |-> "", session_sync_current |-> 0,
                  session_sync_total |-> 0],
      diag |-> DiagZero, log |-> <<>>, in |-> NoInput,
      pre |-> [api |-> ApiZero, net |-> NetZero, cfg |-> SettingsDefault,
               core |-> [netplay_callbacks |-> FALSE],
               eng |-> [live |-> {}, started |-> {}],
               hist |-> HistoryZero, op |-> "none"] ]

\* the program state at the start of a call
Bundle(in) ==
    [ api  |-> g_gekkonet_api,
      hist |-> history,
      net  |-> [networking_driver_st EXCEPT !.data = (@ # NULL_NETPLAY)],
      np   |-> networking_driver_st.data,
      cfg  |-> settings,
      core |-> core,
      eng  |-> engine,
      diag |-> DiagZero,
      log  |-> <<>>,
      ret  |-> FALSE,
      out  |-> 0,
      status |-> LastNone.status,
      allocated |-> FALSE,
      in   |-> in ]

\* the program state when the call returns
Return(s, op, args) ==
    /\ g_gekkonet_api' = s.api
    /\ history' = s.hist
    /\ networking_driver_st' =
          [s.net EXCEPT !.data = IF @ THEN s.np ELSE NULL_NETPLAY]
    /\ settings' = s.cfg
    /\ core' = s.core
    /\ engine' = s.eng
    /\ last' = [ op |-> op, args |-> args, ret |-> s.ret, out |-> s.out,
                 status |-> s.status, diag |-> s.diag, log |-> s.log,
                 in |-> s.in,
                 pre |-> [api |-> g_gekkonet_api, net |-> networking_driver_st,
                          cfg |-> settings, core |-> core, eng |-> engine,
                          hist |-> history, op |-> last.op] ]
    /\ UNCHANGED world

DoInit(server, port) ==
    Return(init_netplay(Bundle(NoInput), server, port), "init", <<server, port>>)

DoInitDeferred(server, port) ==
    Return(init_netplay_deferred(Bundle(NoInput), server, port),
           "init_deferred", <<server, port>>)

DoDeinit ==
    Return(deinit_netplay(Bundle(NoInput)), "deinit", <<>>)

DoCtl(state, data, in) ==
    Return(netplay_driver_ctl(Bundle(in), state, data), "ctl", <<state, data>>)

DoInputState(port, device, idx, id, in) ==
    Return(input_state_net(Bundle(in), port, device, idx, id),
           "input_state", <<port, device, idx, id>>)

DoReinitSerialization ==
    Return(netplay_reinit_serialization(Bundle(NoInput)),
           "reinit_serialization", <<>>)

\* the process as it starts, in a given world
Start(w) ==
    /\ g_gekkonet_api = ApiZero
    /\ history = HistoryZero
    /\ networking_driver_st = NetZero
    /\ settings = SettingsDefault
    /\ core = [netplay_callbacks |-> FALSE]
    /\ engine = [live |-> {}, started |-> {}]
    /\ world = w
    /\ last = LastNone

-----------------------------------------------------------------------------
(* The loader across calls: the library file may change between calls      *)

LoaderInitState == \E lib \in Libs : Start([NominalWorld EXCEPT !.lib = lib])

LoaderInit == DoInit(NULL_STR, 55435)

LoaderDeinit == DoDeinit

LoaderPreFrame == DoCtl("PRE_FRAME", NULL, NoInput)

LoaderPostFrame == DoCtl("POST_FRAME", NULL, NoInput)

\* the library is installed, removed or replaced
LoaderLibraryChanges ==
    /\ \E lib \in Libs : world' = [world EXCEPT !.lib = lib]
    /\ UNCHANGED <<g_gekkonet_api, networking_driver_st, settings, core,
                   engine, history, last>>

LoaderNext ==
    \/ LoaderInit
    \/ LoaderDeinit
    \/ LoaderPreFrame
    \/ LoaderPostFrame
    \/ LoaderLibraryChanges

SpecLoader == LoaderInitState /\ [][LoaderNext]_vars

\* the dlopen calls of the last operation
LastOpens == Calls(last.log, "dlopen")

\* the calls of gekkonet_load_library in the last operation that returned r
LastLoads(r) == SelectSeq(last.log, LAMBDA e : e[1] = "load_library" /\ e[2] = r)

\* C9: once both dlopen calls of a load have failed, every later load
\* returns false without a dlopen, and so every later init fails.
C9_OpenFailureLatched ==
    last.pre.hist.open_failed =>
        /\ LastOpens = <<>>
        /\ LastLoads(TRUE) = <<>>
        /\ (last.op = "init" => ~last.ret)

\* C10: once a load has opened the library and missed a required symbol,
\* attempted_load stays set and every later load returns false without a
\* dlopen or a dlsym.
C10_SymbolFailureLatched ==
    /\ history.symbol_missing /\ ~history.loaded => g_gekkonet_api.attempted_load
    /\ last.pre.hist.symbol_missing =>
          /\ LastOpens = <<>>
          /\ Calls(last.log, "dlsym") = <<>>
          /\ LastLoads(TRUE) = <<>>

\* C11: once a load has returned true, every later load returns true without
\* a dlopen or a dlsym, the module handle, the module path and the function
\* table stay as they were, and the module is never closed.
C11_LoadIdempotentAfterSuccess ==
    /\ history.loaded =>
          /\ g_gekkonet_api.module # NULL
          /\ g_gekkonet_api.bound = SeqToSet(RequiredSymbols)
    /\ last.pre.hist.loaded =>
          /\ LastOpens = <<>>
          /\ Calls(last.log, "dlsym") = <<>>
          /\ Calls(last.log, "dlclose") = <<>>
          /\ LastLoads(FALSE) = <<>>
          /\ g_gekkonet_api.module = last.pre.api.module
          /\ g_gekkonet_api.module_path = last.pre.api.module_path
          /\ g_gekkonet_api.bound = last.pre.api.bound
          /\ g_gekkonet_api.last_error = last.pre.api.last_error

\* a load returned true after an earlier success although the library file
\* is no longer there
C11_Witness ==
    /\ last.pre.hist.loaded
    /\ LastLoads(TRUE) # <<>>
    /\ world.lib = NoLib

\* the returns of gekkonet_load_library in the last operation
LastLoadReturns == Calls(last.log, "load_library")

\* a load of the last operation opened the library and missed a symbol
LastLoadMissedSymbol ==
    /\ LastLoads(FALSE) # <<>>
    /\ Calls(last.log, "dlsym") # <<>>

\* C40: whatever opens failed, symbols were missed and loads succeeded
\* before, a load returns true exactly when the module handle is set, and
\* the handle is set exactly when all 11 required symbols are bound; a set
\* handle implies load_failed is clear; a bound last_error pointer implies
\* a set handle; and after a load that missed a symbol the module was
\* closed, the handle is null, the module path is empty and load_failed is
\* set.
C40_LoaderStateConsistent ==
    /\ \A i \in 1..Len(LastLoadReturns) :
          LastLoadReturns[i][2] = (g_gekkonet_api.module # NULL)
    /\ (g_gekkonet_api.module # NULL)
          = (g_gekkonet_api.bound = SeqToSet(RequiredSymbols))
    /\ g_gekkonet_api.module # NULL => ~g_gekkonet_api.load_failed
    /\ g_gekkonet_api.last_error => g_gekkonet_api.module # NULL
    /\ LastLoadMissedSymbol =>
          /\ Calls(last.log, "dlclose") # <<>>
          /\ g_gekkonet_api.module = NULL
          /\ g_gekkonet_api.module_path = ""
          /\ g_gekkonet_api.load_failed

\* after a failed open, a load opened a library, bound some symbols,
\* missed one and closed the module
C40_Witness ==
    /\ last.pre.hist.open_failed
    /\ LastLoadMissedSymbol
    /\ Calls(last.log, "dlclose") # <<>>
    /\ g_gekkonet_api.bound # {}
    /\ g_gekkonet_api.module = NULL
    /\ g_gekkonet_api.load_failed

-----------------------------------------------------------------------------
(* The session lifecycle: init, deinit and the control dispatcher          *)

\* every state of enum rarch_netplay_ctl_state the dispatcher names
CtlStates ==
    { "ENABLE_SERVER", "ENABLE_CLIENT", "DISABLE", "PRE_FRAME", "POST_FRAME",
      "IS_ENABLED", "IS_CONNECTED", "IS_SERVER", "IS_PLAYING", "IS_SPECTATING",
      "IS_DATA_INITED", "ALLOW_PAUSE", "ALLOW_TIMESKIP",
      "SET_CORE_PACKET_INTERFACE", "USE_CORE_PACKET_INTERFACE",
      "GET_SESSION_STATUS" }
    \cup TeardownStates \cup StubStates

\* the worlds a process may run in: each differs from the nominal one in
\* one collaborator
Worlds ==
    { NominalWorld,
      [NominalWorld EXCEPT !.lib = NoLib],
      [NominalWorld EXCEPT !.create_ok = FALSE],
      [NominalWorld EXCEPT !.adapter_ok = FALSE],
      [NominalWorld EXCEPT !.actor = -1],
      [NominalWorld EXCEPT !.serialize_size = 0],
      [NominalWorld EXCEPT !.alloc_ok = FALSE],
      [NominalWorld EXCEPT !.cb_netplay_ok = FALSE],
      [NominalWorld EXCEPT !.udp = UdpAll("busy")],
      [NominalWorld EXCEPT !.udp = [at |-> 55441, below |-> "busy",
                                    here |-> "free", above |-> "free"]] }

\* a session event as gekko_session_events hands it out
SessionEvent(type, a, b) == [type |-> type, a |-> a, b |-> b]

\* a frame in which the engine reports that play began, with some ping
StartedInput ==
    [NoInput EXCEPT !.sess = [events |-> <<SessionEvent("SessionStarted", 0, 0)>>,
                              null |-> FALSE, count |-> 1],
                    !.ping = 30]

LifeInitState == \E w \in Worlds : Start(w)

LifeInit ==
    \E server \in {NULL_STR, "", "peer"}, port \in {0, 55440} :
        DoInit(server, port)

LifeInitDeferred ==
    \E server \in {NULL_STR, "peer"} : DoInitDeferred(server, 55435)

LifeDeinit == DoDeinit

LifeCtl ==
    \E state \in CtlStates, data \in {NULL, 1}, in \in {NoInput, StartedInput} :
        /\ in # NoInput => state \in {"PRE_FRAME", "POST_FRAME"}
        /\ data # NULL =>
              state \in {"SET_CORE_PACKET_INTERFACE", "GET_SESSION_STATUS"}
        /\ DoCtl(state, data, in)

Next ==
    \/ LifeInit
    \/ LifeInitDeferred
    \/ LifeDeinit
    \/ LifeCtl

Spec == LifeInitState /\ [][Next]_vars

\* the slot points at a session
SlotOccupied(net) == net.data # NULL_NETPLAY

\* the engine calls of the last operation
LastEngineCalls ==
    SelectSeq(last.log,
              LAMBDA e : e[1] \in {"create", "destroy", "start", "add_actor"})

\* C1: control(IS_ENABLED) answers true exactly when the slot holds a
\* session whose running flag is set; nothing else enters the answer.
C1_IsEnabledIffRunningSession ==
    (last.op = "ctl" /\ last.args[1] = "IS_ENABLED") =>
        last.ret = (SlotOccupied(last.pre.net) /\ last.pre.net.data.running)

\* IS_ENABLED answered true for a live session that is not connected
C1_Witness ==
    /\ last.op = "ctl" /\ last.args[1] = "IS_ENABLED"
    /\ SlotOccupied(last.pre.net)
    /\ ~last.pre.net.data.connected
    /\ last.ret

\* C2: an init called while the slot holds a session fails at stage
\* preflight_active_session, leaves the session, the driver flags and
\* latest_ping as they were and makes no create, destroy, start or
\* add_actor call.
C2_InitWhileActiveRefused ==
    (last.op = "init" /\ SlotOccupied(last.pre.net)) =>
        /\ ~last.ret
        /\ last.diag.failure_stage = "preflight_active_session"
        /\ networking_driver_st = last.pre.net
        /\ engine = last.pre.eng
        /\ LastEngineCalls = <<>>

\* an init was refused while a started session with a measured ping was live
C2_Witness ==
    /\ last.op = "init"
    /\ SlotOccupied(last.pre.net)
    /\ last.pre.net.data.session_started
    /\ last.pre.net.latest_ping = 30
    /\ ~last.ret

\* the driver state every deinit leaves
DeinitLeaves(net) ==
    /\ ~SlotOccupied(net)
    /\ ~net.enabled
    /\ ~net.is_client
    /\ net.latest_ping = -1
    /\ net.session_status = MSG_NOT_AVAILABLE
    /\ net.session_sync_current = 0
    /\ net.session_sync_total = 0

\* C3: after deinit the slot is empty, enabled and is_client are clear,
\* latest_ping is -1 and the status is reset with counters (0,0); a deinit
\* that follows a deinit changes nothing.
C3_DeinitClearsAndIsIdempotent ==
    last.op = "deinit" =>
        /\ DeinitLeaves(networking_driver_st)
        /\ last.pre.op = "deinit" =>
              /\ networking_driver_st = last.pre.net
              /\ engine = last.pre.eng
              /\ core = last.pre.core
              /\ g_gekkonet_api = last.pre.api

\* a deinit tore down a started client session with a measured ping
C3_Witness ==
    /\ last.op = "deinit"
    /\ SlotOccupied(last.pre.net)
    /\ last.pre.net.is_client
    /\ last.pre.net.session_status = MSG_NETPLAY_STATUS_PLAYING
    /\ last.pre.net.latest_ping = 30
    /\ ~SlotOccupied(networking_driver_st)

\* the engine calls that take a session handle as their first argument
SessionCallTags ==
    { "start", "net_adapter_set", "add_actor", "add_local_input",
      "update_session", "session_events", "network_stats", "network_poll" }

\* the call log from entry i on respects handle ownership when the engine's
\* live handles before entry i are live: create hands out a handle that is
\* not live and is then the only live one, destroy takes a live handle, and
\* every other session call takes a live handle
RECURSIVE HandleReplay(_, _, _)
HandleReplay(log, i, live) ==
    IF i > Len(log) THEN TRUE
    ELSE LET e == log[i] IN
         CASE e[1] = "create" /\ e[2] # NULL ->
                  /\ e[2] \notin live
                  /\ live = {}
                  /\ HandleReplay(log, i + 1, live \cup {e[2]})
           [] e[1] = "destroy" ->
                  /\ e[2] \in live
                  /\ HandleReplay(log, i + 1, live \ {e[2]})
           [] e[1] \in SessionCallTags ->
                  /\ e[2] \in live
                  /\ HandleReplay(log, i + 1, live)
           [] OTHER -> HandleReplay(log, i + 1, live)

\* C12: a handle the engine handed out is live exactly while a session in
\* the slot owns it, so it is destroyed once, on the failing init's cleanup
\* or on teardown; no engine call takes a handle that was destroyed, and at
\* most one handle is live at any time.
C12_HandleDestroyedExactlyOnce ==
    /\ engine.live = IF SlotOccupied(networking_driver_st)
                     THEN {networking_driver_st.data.session} ELSE {}
    /\ NULL \notin engine.live
    /\ HandleReplay(last.log, 1, last.pre.eng.live)

\* an init that failed after the engine session was started destroyed the
\* handle create had given it
C12_Witness ==
    /\ last.op = "init" /\ ~last.ret
    /\ Calls(last.log, "create") # <<>>
    /\ Calls(last.log, "create")[1][2] # NULL
    /\ Calls(last.log, "start") # <<>>
    /\ Calls(last.log, "destroy")
          = << <<"destroy", Calls(last.log, "create")[1][2]>> >>

\* C13: an init that fails after preflight leaves the slot empty, leaves no
\* engine handle live, and calls core_unset_netplay_callbacks exactly when
\* this call installed the netplay callbacks.
C13_FailedInitCleansUp ==
    (last.op = "init" /\ ~last.ret /\ ~SlotOccupied(last.pre.net)) =>
        /\ ~SlotOccupied(networking_driver_st)
        /\ engine.live = {}
        /\ Len(Calls(last.log, "create")) <= 1
        /\ \A i \in 1..Len(Calls(last.log, "create")) :
              Calls(last.log, "create")[i][2] # NULL =>
                 Calls(last.log, "destroy")
                    = << <<"destroy", Calls(last.log, "create")[i][2]>> >>
        /\ (Calls(last.log, "core_unset_netplay_callbacks") # <<>>)
              = (Calls(last.log, "core_set_netplay_callbacks") # <<>>
                    /\ world.cb_netplay_ok)
        /\ Len(Calls(last.log, "core_unset_netplay_callbacks")) <= 1
        /\ ~core.netplay_callbacks

\* an init failed at the local actor, after the callbacks were installed and
\* the engine session was created and started
C13_Witness ==
    /\ last.op = "init" /\ ~last.ret
    /\ last.diag.failure_stage = "register_local_actor"
    /\ Calls(last.log, "destroy") # <<>>
    /\ Calls(last.log, "core_unset_netplay_callbacks") # <<>>

\* C14: after a successful init the slot holds the new session with an
\* engine handle, an adapter, a local actor handle >= 0 and running set;
\* latest_ping is -1, the deferred-client flag is clear, and the session is
\* not connected, not started, has no authoritative input and is at frame 0.
C14_InitSuccessPublishes ==
    (last.op = "init" /\ last.ret) =>
        /\ SlotOccupied(networking_driver_st)
        /\ networking_driver_st.data.session # NULL
        /\ networking_driver_st.data.session \in engine.live
        /\ networking_driver_st.data.adapter # NULL
        /\ networking_driver_st.data.local_handle >= 0
        /\ networking_driver_st.data.running
        /\ networking_driver_st.latest_ping = -1
        /\ ~networking_driver_st.client_deferred
        /\ ~networking_driver_st.data.connected
        /\ ~networking_driver_st.data.session_started
        /\ ~networking_driver_st.data.authoritative_valid
        /\ networking_driver_st.data.current_frame = 0

\* an init succeeded from a driver whose deferred-client flag was set and
\* whose latest_ping was not -1
C14_Witness ==
    /\ last.op = "init" /\ last.ret
    /\ last.pre.net.client_deferred
    /\ last.pre.net.latest_ping # -1
    /\ SlotOccupied(networking_driver_st)

\* C15: an init during which the core reports a serialize size of 0 fails at
\* stage apply_settings; it probes no port, asks for no adapter, never
\* starts the engine session, and destroys the handle create gave it.
C15_SerializeSizeZeroFailsInit ==
    (last.op = "init" /\ <<"serialize_size", 0>> \in SeqToSet(last.log)) =>
        /\ ~last.ret
        /\ last.diag.failure_stage = "apply_settings"
        /\ ~last.diag.serialization_ready
        /\ Calls(last.log, "probe") = <<>>
        /\ Calls(last.log, "default_adapter") = <<>>
        /\ Calls(last.log, "net_adapter_set") = <<>>
        /\ Calls(last.log, "start") = <<>>
        /\ Calls(last.log, "add_actor") = <<>>
        /\ Len(Calls(last.log, "create")) = 1
        /\ Calls(last.log, "destroy")
              = << <<"destroy", Calls(last.log, "create")[1][2]>> >>
        /\ engine.live = {}
        /\ ~SlotOccupied(networking_driver_st)

\* an init created an engine session and then met a core whose serialize
\* size is 0
C15_Witness ==
    /\ last.op = "init"
    /\ world.serialize_size = 0
    /\ Calls(last.log, "create") # <<>>
    /\ Calls(last.log, "create")[1][2] # NULL
    /\ <<"serialize_size", 0>> \in SeqToSet(last.log)
    /\ ~last.ret

\* the last operation was one of the nine teardown states of the dispatcher
TeardownOp == last.op = "ctl" /\ last.args[1] \in TeardownStates

\* the program state the last operation began in, as a bundle
PreBundle ==
    [ Bundle(last.in) EXCEPT
        !.api  = last.pre.api,
        !.hist = last.pre.hist,
        !.net  = [last.pre.net EXCEPT !.data = (@ # NULL_NETPLAY)],
        !.np   = last.pre.net.data,
        !.cfg  = last.pre.cfg,
        !.core = last.pre.core,
        !.eng  = last.pre.eng ]

\* the program state is the one bundle s describes
StateIs(s) ==
    /\ networking_driver_st
          = [s.net EXCEPT !.data = IF @ THEN s.np ELSE NULL_NETPLAY]
    /\ engine = s.eng
    /\ core = s.core
    /\ settings = s.cfg
    /\ g_gekkonet_api = s.api

\* C20 as stated: after each of pause, unpause, load-savestate, reset,
\* disconnect, watch-mode, chat, refresh-client-info and is-replaying, from
\* every driver state, the state is the one deinit_netplay would leave.
C20_TeardownOpsEqualDeinit ==
    TeardownOp => StateIs(deinit_netplay(PreBundle))

\* C20 as the code has it: with a session in the slot each of the nine
\* states returns true, makes the calls of deinit_netplay and leaves the
\* state deinit_netplay would leave; with the slot empty it returns false,
\* calls nothing and changes nothing.
C20_TeardownOpsEqualDeinitOnSession ==
    TeardownOp =>
        /\ SlotOccupied(last.pre.net) =>
               /\ last.ret
               /\ StateIs(deinit_netplay(PreBundle))
               /\ last.log = deinit_netplay(PreBundle).log
               /\ DeinitLeaves(networking_driver_st)
        /\ ~SlotOccupied(last.pre.net) =>
               /\ ~last.ret
               /\ StateIs(PreBundle)
               /\ last.log = <<>>

\* a disconnect tore down a started client session with a measured ping
C20_Witness ==
    /\ TeardownOp
    /\ last.args[1] = "DISCONNECT"
    /\ SlotOccupied(last.pre.net)
    /\ last.pre.net.is_client
    /\ last.pre.net.data.session_started
    /\ last.pre.net.latest_ping = 30
    /\ last.ret
    /\ ~SlotOccupied(networking_driver_st)

\* C21: while the slot holds a session, no control operation other than a
\* teardown takes the enabled flag or the is_client flag from set to clear.
C21_FlagsKeptWhileSessionLive ==
    (last.op = "ctl" /\ SlotOccupied(last.pre.net)
       /\ last.args[1] \notin TeardownStates) =>
        /\ last.pre.net.enabled => networking_driver_st.enabled
        /\ last.pre.net.is_client => networking_driver_st.is_client

\* C22: a deinit releases the core packet-interface record, so
\* control(USE_CORE_PACKET_INTERFACE) right after a deinit returns false.
C22_DeinitReleasesPacketInterface ==
    /\ last.op = "deinit" => ~networking_driver_st.core_netpacket_interface
    /\ (last.op = "ctl" /\ last.args[1] = "USE_CORE_PACKET_INTERFACE"
          /\ last.pre.op = "deinit") => ~last.ret

\* C24: the slot holds a session exactly when an engine handle is live: a
\* published session holds a non-null handle that the engine has live, and
\* with the slot empty the engine has no live handle.
C24_SlotOccupiedIffHandleLive ==
    /\ SlotOccupied(networking_driver_st) = (engine.live # {})
    /\ SlotOccupied(networking_driver_st) =>
          /\ networking_driver_st.data.session # NULL
          /\ networking_driver_st.data.session \in engine.live

\* a session was published right after a teardown
C24_Witness ==
    /\ last.op = "init" /\ last.ret
    /\ last.pre.op = "deinit"
    /\ SlotOccupied(networking_driver_st)
    /\ engine.live = {networking_driver_st.data.session}

\* the index of the first entry of a log with the given tag and handle, 0
\* when there is none
FirstCall(log, tag, h) ==
    LET at == {i \in 1..Len(log) : log[i][1] = tag /\ log[i][2] = h}
    IN  IF at = {} THEN 0 ELSE CHOOSE i \in at : \A j \in at : i <= j

\* netplay_setup_session run on a fresh session object from the present
\* state, for the port the last init was given
SetupAttempt ==
    netplay_setup_session([Bundle(NoInput) EXCEPT !.np = netplay_new,
                                                  !.allocated = TRUE],
                          last.args[2])

\* C27: a session whose local actor handle is >= 0 has had start called on
\* its engine handle: add_actor is called only after net_adapter_set and
\* start on the same handle, and the local actor handle is -1 from
\* netplay_new until then.
C27_LocalActorOnlyAfterStart ==
    /\ (SlotOccupied(networking_driver_st)
          /\ networking_driver_st.data.local_handle >= 0) =>
             networking_driver_st.data.session \in engine.started
    /\ \A k \in 1..Len(last.log) :
          last.log[k][1] = "add_actor" =>
             /\ FirstCall(last.log, "net_adapter_set", last.log[k][2]) > 0
             /\ FirstCall(last.log, "net_adapter_set", last.log[k][2])
                   < FirstCall(last.log, "start", last.log[k][2])
             /\ FirstCall(last.log, "start", last.log[k][2]) < k
    /\ netplay_new.local_handle = -1
    /\ (last.op = "init" /\ ~SlotOccupied(networking_driver_st)) =>
          /\ ~SetupAttempt.diag.session_started =>
                SetupAttempt.np.local_handle = -1
          /\ SetupAttempt.np.local_handle >= 0 =>
                SetupAttempt.np.session \in SetupAttempt.eng.started

\* an init published a session with local actor handle 0 on a started
\* engine session
C27_Witness ==
    /\ last.op = "init" /\ last.ret
    /\ SlotOccupied(networking_driver_st)
    /\ networking_driver_st.data.local_handle = 0
    /\ networking_driver_st.data.session \in engine.started
    /\ Calls(last.log, "add_actor") # <<>>

\* the stage an external call of init belongs to, 0 for any other call
StageRank(tag) ==
    CASE tag = "create"          -> 1
      [] tag = "serialize_size"  -> 2
      [] tag = "probe"           -> 3
      [] tag = "default_adapter" -> 4
      [] tag = "net_adapter_set" -> 5
      [] tag = "start"           -> 6
      [] tag = "add_actor"       -> 7
      [] OTHER                   -> 0

StagedCall(e) == StageRank(e[1]) > 0

\* the staged external calls of the last operation, in order
LastStagedCalls == SelectSeq(last.log, StagedCall)

\* the last stage whose calls an init that failed at the given stage may
\* have made
LastStageReached(stage) ==
    CASE stage = "session_create"         -> 1
      [] stage = "apply_settings"         -> 2
      [] stage = "port_selection"         -> 3
      [] stage = "adapter_initialisation" -> 4
      [] stage = "register_local_actor"   -> 7
      [] OTHER                            -> 0

\* C28: a successful init makes its external calls in the order create,
\* serialize-size query, initial probe and fallback probes on the following
\* ports, default_adapter, net_adapter_set, start, add_actor("LocalPlayer"),
\* each once (only the probe repeats); an init that fails at a stage makes
\* the calls of the earlier stages in that order and none of a later stage.
C28_InitCallsInStageOrder ==
    last.op = "init" =>
      LET calls == LastStagedCalls IN
      /\ \A i, j \in 1..Len(calls) :
            i < j =>
              \/ StageRank(calls[i][1]) < StageRank(calls[j][1])
              \/ /\ calls[i][1] = "probe" /\ calls[j][1] = "probe"
                 /\ j = i + 1 => calls[j][2] = calls[i][2] + 1
      /\ \A k \in 1..Len(calls) :
            calls[k][1] = "add_actor" => calls[k][3] = "LocalPlayer"
      /\ last.ret =>
            {StageRank(calls[k][1]) : k \in 1..Len(calls)} = 1..7
      /\ ~last.ret =>
            \A k \in 1..Len(calls) :
               StageRank(calls[k][1]) <= LastStageReached(last.diag.failure_stage)

\* an init succeeded after probing the requested port and a fallback port
C28_Witness ==
    /\ last.op = "init" /\ last.ret
    /\ Len(Calls(last.log, "probe")) >= 2
    /\ Len(LastStagedCalls) >= 8

\* an init failed at the adapter stage after its probes
C28_WitnessFailed ==
    /\ last.op = "init" /\ ~last.ret
    /\ last.diag.failure_stage = "adapter_initialisation"
    /\ Calls(last.log, "default_adapter") # <<>>

\* the stages of init in the order the code runs them
StageOrder ==
    << "preflight_active_session", "enable_driver", "core_callbacks",
       "netplay_callbacks", "allocate_state", "session_create",
       "apply_settings", "port_selection", "adapter_initialisation",
       "session_start", "register_local_actor" >>

\* the flags of the diagnostics record that are set when a stage completes;
\* netplay_driver_enabled is not among them: it is a reading of the driver
\* flag, first taken before the preflight
StageFlags(stage) ==
    CASE stage = "core_callbacks"         -> {"core_callbacks_ready"}
      [] stage = "netplay_callbacks"      -> {"netplay_callbacks_ready"}
      [] stage = "allocate_state"         -> {"netplay_state_allocated"}
      [] stage = "session_create"         -> {"session_created"}
      [] stage = "apply_settings"         -> {"serialization_ready",
                                              "settings_applied"}
      [] stage = "adapter_initialisation" -> {"adapter_acquired"}
      [] stage = "session_start"          -> {"session_started"}
      [] stage = "register_local_actor"   -> {"local_actor_registered"}
      [] OTHER                            -> {}

\* the diagnostics records the last operation dumped
LastDumps == Calls(last.log, "diag_dump")

\* in record d the flags of the stages before the n-th are set and those of
\* the n-th and later stages are clear
FlagsSplitAt(d, n) ==
    \A k \in 1..Len(StageOrder) :
       \A f \in StageFlags(StageOrder[k]) : d[f] = (k < n)

\* C29: every init dumps exactly one diagnostics record; its failure_stage
\* is non-empty exactly when init returns false, and then names a stage
\* such that the success flags of all earlier stages are set and those of
\* the named and all later stages are clear; after a successful init every
\* stage flag is set.  Past the enable_driver stage the record shows the
\* driver enabled.
C29_OneDumpNamesFirstFailedStage ==
    last.op = "init" =>
      /\ Len(LastDumps) = 1
      /\ LET d == LastDumps[1][2] IN
         /\ (d.failure_stage # "") = ~last.ret
         /\ d.failure_stage = "" =>
               /\ FlagsSplitAt(d, Len(StageOrder) + 1)
               /\ d.netplay_driver_enabled
         /\ d.failure_stage # "" =>
               \E n \in 1..Len(StageOrder) :
                  /\ StageOrder[n] = d.failure_stage
                  /\ FlagsSplitAt(d, n)
                  /\ n > 2 => d.netplay_driver_enabled

\* an init failed at the local actor registration and dumped its record
C29_Witness ==
    /\ last.op = "init" /\ ~last.ret
    /\ Len(LastDumps) = 1
    /\ LastDumps[1][2].failure_stage = "register_local_actor"
    /\ LastDumps[1][2].session_started
    /\ ~LastDumps[1][2].local_actor_registered

\* C35: an occupied slot implies the enabled flag.  An init has the driver
\* enabled before it allocates the session; DISABLE with a live session
\* returns false and changes nothing, and with an empty slot clears the
\* flag; a deinit leaves the slot empty and the flag clear.
C35_OccupiedSlotImpliesEnabled ==
    /\ SlotOccupied(networking_driver_st) => networking_driver_st.enabled
    /\ last.op = "init" =>
          \A i \in 1..Len(LastDumps) :
             LastDumps[i][2].netplay_state_allocated =>
                LastDumps[i][2].netplay_driver_enabled
    /\ (last.op = "ctl" /\ last.args[1] = "DISABLE") =>
          IF SlotOccupied(last.pre.net)
          THEN /\ ~last.ret
               /\ networking_driver_st = last.pre.net
               /\ g_gekkonet_api = last.pre.api
               /\ settings = last.pre.cfg
               /\ core = last.pre.core
               /\ engine = last.pre.eng
               /\ last.log = <<>>
          ELSE /\ last.ret
               /\ networking_driver_st = [last.pre.net EXCEPT !.enabled = FALSE]
    /\ last.op = "deinit" =>
          ~SlotOccupied(networking_driver_st) /\ ~networking_driver_st.enabled

\* DISABLE was refused on a live session, which stayed enabled
C35_Witness ==
    /\ last.op = "ctl" /\ last.args[1] = "DISABLE"
    /\ SlotOccupied(last.pre.net)
    /\ ~last.ret
    /\ SlotOccupied(networking_driver_st)
    /\ networking_driver_st.enabled

\* C37: an init that returns false leaves the driver state as it was
\* before the call: the slot, the enabled, is_client and deferred flags,
\* the deferred address and port, latest_ping, the session status and the
\* core packet-interface record.
C37_FailedInitLeavesDriverState ==
    (last.op = "init" /\ ~last.ret) => networking_driver_st = last.pre.net

\* the mode an init asks for: client when it is given a server or the
\* is_client flag is set
WantedClient == last.args[1] \notin {NULL_STR, ""} \/ last.pre.net.is_client

\* C37, amended: an init that returns false leaves the driver state as it
\* was before the call, except that a driver that was not enabled is left
\* enabled in the mode the call asked for (is_client set for a client,
\* clear for a server); the slot, the deferred flag, address and port,
\* latest_ping, the session status and the core packet-interface record
\* are as before.
C37_FailedInitKeepsAllButEnable ==
    (last.op = "init" /\ ~last.ret) =>
        networking_driver_st
          = IF last.pre.net.enabled THEN last.pre.net
            ELSE [last.pre.net EXCEPT !.enabled = TRUE,
                                      !.is_client = WantedClient]

\* an init for a server failed on a disabled driver that held a deferred
\* client and left it enabled
C37_Witness ==
    /\ last.op = "init" /\ ~last.ret
    /\ ~last.pre.net.enabled
    /\ last.pre.net.client_deferred
    /\ networking_driver_st.enabled
    /\ networking_driver_st.client_deferred
    /\ ~SlotOccupied(networking_driver_st)
    /\ last.diag.failure_stage \notin {"", "preflight_active_session"}

\* C39: whenever the slot is empty, latest_ping is -1: at process start
\* before any init, after a failed init and after a deinit.
C39_EmptySlotPingUnavailable ==
    ~SlotOccupied(networking_driver_st) => networking_driver_st.latest_ping = -1

-----------------------------------------------------------------------------
(* Frames and input queries on a live session                              *)

\* the highest frame number an Advance event carries
MaxFrame == 2

\* the highest port an input query names
MaxInputPort == 2

\* a game event as gekko_update_session hands it out
AdvanceEvent(frame, inputs, inputs_null) ==
    [ type |-> "AdvanceEvent", frame |-> frame,
      inputs |-> inputs, inputs_null |-> inputs_null, input_len |-> Len(inputs),
      state |-> <<>>, has_state |-> FALSE, state_len |-> 0,
      has_len |-> FALSE, has_checksum |-> FALSE ]

\* the payloads an Advance event may carry: the masks of one or of two
\* ports, low byte first, or nothing
Payloads ==
    { <<>>, <<0, 0>>, <<1, 0>>, <<0, 0, 1, 0>>, <<1, 0, 0, 1>> }

GameEvents(events) == [events |-> events, null |-> FALSE, count |-> Len(events)]

\* the frames of one pre-frame drain: one Advance event, or two
AdvanceInputs ==
    { [NoInput EXCEPT !.game = GameEvents(<<AdvanceEvent(f, pl, FALSE)>>)] :
         f \in 1..MaxFrame, pl \in Payloads }
    \cup { [NoInput EXCEPT !.game = GameEvents(
               <<AdvanceEvent(1, <<1, 0, 0, 1>>, FALSE), AdvanceEvent(2, pl, n)>>)] :
              pl \in {<<>>, <<0, 0>>}, n \in BOOLEAN }

\* what the hardware reports to the state callback
PadInputs == { NoInput, [NoInput EXCEPT !.pad = {0, 8}, !.analog = 5] }

\* the ids an input query names: B, A, R3 and one past the table
QueryIds == {0, 8, 15, 16}

InputInitState == Start(NominalWorld)

InputInit == DoInit(NULL_STR, 0)

InputDeinit == DoDeinit

InputPreFrame == \E in \in AdvanceInputs : DoCtl("PRE_FRAME", NULL, in)

InputQuery ==
    \E port \in 0..MaxInputPort, device \in {RETRO_DEVICE_JOYPAD, 5},
       idx \in {0, 1}, id \in QueryIds, in \in PadInputs :
        DoInputState(port, device, idx, id, in)

InputNext ==
    \/ InputInit
    \/ InputDeinit
    \/ InputPreFrame
    \/ InputQuery

SpecInput == InputInitState /\ [][InputNext]_vars

\* the last operation was input_state(port, Joypad, 0, id) on a live session
\* with id in the button table
JoypadQuery ==
    /\ last.op = "input_state"
    /\ last.args[2] = RETRO_DEVICE_JOYPAD
    /\ last.args[3] = 0
    /\ \E i \in 1..NETPLAY_BUTTON_COUNT : netplay_button_map[i] = last.args[4]
    /\ SlotOccupied(last.pre.net)
    /\ last.pre.net.data.running

\* the table index (from 0) of the id the last query named
QueryBit == CHOOSE i \in 0..(NETPLAY_BUTTON_COUNT - 1) :
                netplay_button_map[i + 1] = last.args[4]

\* the 16-bit mask at byte offset 2 * port of a buffer, low byte first
MaskAt(buf, port) == buf[2 * port + 1] + 256 * buf[2 * port + 2]

\* C4: on a live session with a valid authoritative view, a joypad query
\* for port p with p*2+2 <= authoritative_size and a table id at index i
\* returns bit i of the mask at byte offset p*2, without a state callback.
C4_JoypadReadsAuthoritativeMask ==
    ( /\ JoypadQuery
      /\ last.pre.net.data.authoritative_valid
      /\ 2 * last.args[1] + 2 <= last.pre.net.data.authoritative_size ) =>
        /\ last.out = Bit(MaskAt(last.pre.net.data.authoritative_input,
                                 last.args[1]), QueryBit)
        /\ Calls(last.log, "state_cb") = <<>>

\* the buffer holds 0x0001 and 0x0100, the pad holds A and B down, and the
\* query for A on port 1 answered 1
C4_Witness ==
    /\ JoypadQuery
    /\ last.pre.net.data.authoritative_valid
    /\ last.pre.net.data.authoritative_input = <<1, 0, 0, 1>>
    /\ last.args[1] = 1 /\ last.args[4] = 8
    /\ last.in.pad = {0, 8}
    /\ last.out = 1

\* C5: a joypad query answers from the payload of the last Advance event
\* alone: the mask at offset p*2 of that payload when p*2+2 is within its
\* length, 0 otherwise.
C5_OnlyLastAdvanceObservable ==
    (JoypadQuery /\ history.advance.seen) =>
        last.out = IF 2 * last.args[1] + 2 <= Len(history.advance.payload)
                   THEN Bit(MaskAt(history.advance.payload, last.args[1]), QueryBit)
                   ELSE 0

\* what the hardware answers to a query
HardwareAnswer(in, device, idx, id) ==
    IF device = RETRO_DEVICE_JOYPAD /\ idx = 0
    THEN (IF id \in in.pad THEN 1 ELSE 0)
    ELSE in.analog

\* the last query was answered by one call of the stored state callback
\* with the query's own arguments
Delegated ==
    /\ last.log = << <<"state_cb", last.args[1], last.args[2], last.args[3],
                       last.args[4]>> >>
    /\ last.out = HardwareAnswer(last.in, last.args[2], last.args[3], last.args[4])

\* C23 as stated: every query other than a table button of joypad index 0
\* on a live session returns what the stored state callback returns.
C23_OtherQueriesDelegate ==
    (last.op = "input_state" /\ ~JoypadQuery) => Delegated

\* C23 as the code has it: on a live session every such query is delegated
\* to the session's stored state callback; without a session there is no
\* stored callback, no call is made and the answer is 0.
C23_OtherQueriesDelegateOnSession ==
    (last.op = "input_state" /\ ~JoypadQuery) =>
        /\ SlotOccupied(last.pre.net) => Delegated
        /\ ~SlotOccupied(last.pre.net) => last.out = 0 /\ last.log = <<>>

\* an analog query on a live session returned the callback's answer 5
C23_Witness ==
    /\ last.op = "input_state"
    /\ SlotOccupied(last.pre.net)
    /\ last.args[2] = 5
    /\ last.in.analog = 5
    /\ last.out = 5

\* C25: whenever the authoritative view of a session is valid it holds a
\* mask for every player: authoritative_size >= 2 * num_players.
C25_ValidViewCoversEveryPlayer ==
    (SlotOccupied(networking_driver_st)
       /\ networking_driver_st.data.authoritative_valid) =>
        networking_driver_st.data.authoritative_size
            >= 2 * networking_driver_st.data.num_players

-----------------------------------------------------------------------------
(* Port selection: init against the operating system's port table          *)

\* the ports an init is asked for: the default, two from which a full scan
\* ends at or just below 65535, three from which it would pass 65535
RequestedPorts == {55435, 65519, 65520, 65530, 65534, 65535}

\* how far above a requested port the port table changes
MaxStep == 17

\* the port tables: every port below some port reports one outcome, that
\* port a second, every port above it a third
PortTables ==
    { [at |-> p + k, below |-> b, here |-> h, above |-> a] :
        p \in {55435, 65519}, k \in 0..MaxStep, b \in Outcomes, h \in Outcomes,
        a \in Outcomes }

PortInitState ==
    \E udp \in PortTables : Start([NominalWorld EXCEPT !.udp = udp])

\* port 0 asks for the configured port
PortInit == \E port \in RequestedPorts \cup {0} : DoInit(NULL_STR, port)

PortDeinit == DoDeinit

PortNext ==
    \/ PortInit
    \/ PortDeinit

SpecPort == PortInitState /\ [][PortNext]_vars

\* the probes of the last operation, in order
LastProbes == Calls(last.log, "probe")

\* the last operation was an init that reached the port selection
PortSelectionRan == last.op = "init" /\ LastProbes # <<>>

\* the port the last init was asked for
RequestedPort ==
    (IF last.args[2] # 0 THEN last.args[2] ELSE last.pre.cfg.netplay_port) % U16

Busy == [available |-> FALSE, verified |-> TRUE]

\* every existing port of lo..hi is in use
AllBusy(lo, hi) ==
    \A q \in lo..Min(hi, U16 - 1) : PortOutcome(world.udp, q) = "busy"

\* C6: the fallback scan runs only after the requested port probed
\* (false, true), makes at most 16 probes, of requested+1, requested+2, ...
\* in that order, and never probes a port reached by wrapping past 65535.
\* The scan ends because its probes are bounded: every init completes.
C6_FallbackScanBounded ==
    PortSelectionRan =>
        /\ LastProbes[1][2] = RequestedPort
        /\ Len(LastProbes) > 1 => LastProbes[1][3] = Busy
        /\ Len(LastProbes) <= 1 + 16
        /\ \A i \in 2..Len(LastProbes) :
              /\ LastProbes[i][2] = RequestedPort + (i - 1)
              /\ LastProbes[i][2] <= U16 - 1

\* a scan from 65530 probed the five ports up to 65535 and stopped there
C6_Witness ==
    /\ PortSelectionRan
    /\ RequestedPort = 65530
    /\ Len(LastProbes) = 6
    /\ LastProbes[6][2] = 65535
    /\ last.diag.fallback_aborted_on_wrap

\* C7 as stated: when the requested port P and every port of P..P+15 are
\* in use, init fails at port_selection and publishes no session.
C7_SixteenBusyPortsFail ==
    (PortSelectionRan /\ AllBusy(RequestedPort, RequestedPort + 15)) =>
        /\ ~last.ret
        /\ last.diag.failure_stage = "port_selection"
        /\ ~SlotOccupied(networking_driver_st)

\* C7: when the requested port P and every port of P+1..P+16 are in use,
\* init fails at port_selection and publishes no session, whatever the
\* other ports report.
C7_SeventeenBusyPortsFail ==
    (PortSelectionRan /\ AllBusy(RequestedPort, RequestedPort + 16)) =>
        /\ ~last.ret
        /\ last.diag.failure_stage = "port_selection"
        /\ ~SlotOccupied(networking_driver_st)

\* an init for 55435 failed after 16 fallback probes although 55452 is free
C7_Witness ==
    /\ PortSelectionRan
    /\ RequestedPort = 55435
    /\ AllBusy(55435, 55451)
    /\ PortOutcome(world.udp, 55452) = "free"
    /\ last.diag.fallback_attempts = 16
    /\ ~last.ret

\* the requested port and the k - 1 ports above it are in use, the k-th is
\* free
FirstFreeAt(k) ==
    /\ RequestedPort + k <= U16 - 1
    /\ AllBusy(RequestedPort, RequestedPort + k - 1)
    /\ PortOutcome(world.udp, RequestedPort + k) = "free"

\* C8: when P and P+1..P+k-1 are in use and P+k is free, 1 <= k <= 16,
\* setup selects P+k: resolved_port and fallback_attempts say so, the
\* configuration key netplay_port is written and the adapter is requested
\* for P+k.
C8_FallbackSelectsFirstFree ==
    \A k \in 1..16 :
        (PortSelectionRan /\ FirstFreeAt(k)) =>
            /\ last.diag.resolved_port = RequestedPort + k
            /\ last.diag.fallback_attempts = k
            /\ last.diag.fallback_succeeded
            /\ settings.netplay_port = RequestedPort + k
            /\ Calls(last.log, "configuration_set_uint") =
                   << <<"configuration_set_uint", "netplay_port", RequestedPort + k>> >>
            /\ Calls(last.log, "default_adapter") =
                   << <<"default_adapter", RequestedPort + k>> >>

\* an init for 65519 found its first free port sixteen ports up, at 65535
C8_Witness ==
    /\ PortSelectionRan
    /\ RequestedPort = 65519
    /\ FirstFreeAt(16)
    /\ last.ret
    /\ settings.netplay_port = 65535

\* C30: in a fallback scan a candidate probe that comes back unverified is
\* the last probe of that init, and the dumped diagnostics record then has
\* fallback_aborted_on_unverified set with fallback_attempts counting the
\* candidates up to that one; the flag is set in no other case.
C30_ScanStopsAtUnverifiedCandidate ==
    last.op = "init" =>
      /\ \A k \in 2..Len(LastProbes) :
            ~LastProbes[k][3].verified =>
               /\ k = Len(LastProbes)
               /\ Len(LastDumps) = 1
               /\ LastDumps[1][2].fallback_aborted_on_unverified
               /\ LastDumps[1][2].fallback_attempts = k - 1
      /\ \A i \in 1..Len(LastDumps) :
            LastDumps[i][2].fallback_aborted_on_unverified =>
               /\ Len(LastProbes) >= 2
               /\ ~LastProbes[Len(LastProbes)][3].verified

\* a scan passed two busy candidates and stopped at an unverified third
C30_Witness ==
    /\ last.op = "init"
    /\ Len(LastProbes) = 4
    /\ LastProbes[3][3] = Busy
    /\ ~LastProbes[4][3].verified
    /\ LastProbes[4][2] = LastProbes[1][2] + 3
    /\ LastDumps[1][2].fallback_aborted_on_unverified

\* the probe of the last init that found its port free, <<>> when none did
SelectedProbe ==
    SelectSeq(LastProbes, LAMBDA e : e[3].available /\ e[3].verified)

\* C36: an init writes the configuration only when its fallback scan
\* selected a candidate, and then writes netplay_port with the selected
\* port and nothing else; on every other path (the requested port free or
\* unverified, the scan stopped by the wrap or by an unverified candidate,
\* the scan exhausted) the configuration is as it was before the call.
C36_ConfigWrittenOnlyOnFallback ==
    last.op = "init" =>
      IF Len(LastProbes) >= 2 /\ SelectedProbe # <<>>
      THEN /\ settings = [last.pre.cfg EXCEPT !.netplay_port = SelectedProbe[1][2]]
           /\ SelectedProbe[1] = LastProbes[Len(LastProbes)]
           /\ Calls(last.log, "configuration_set_uint")
                 = << <<"configuration_set_uint", "netplay_port",
                        SelectedProbe[1][2]>> >>
      ELSE /\ settings = last.pre.cfg
           /\ Calls(last.log, "configuration_set_uint") = <<>>

\* a scan selected the third candidate and the configuration holds it
C36_Witness ==
    /\ last.op = "init" /\ last.ret
    /\ Len(LastProbes) = 4
    /\ SelectedProbe # <<>>
    /\ settings.netplay_port = LastProbes[1][2] + 3
    /\ last.pre.cfg.netplay_port # settings.netplay_port

\* a scan stopped at an unverified candidate and the configuration is as
\* it was
C36_WitnessAborted ==
    /\ last.op = "init"
    /\ Len(LastProbes) >= 2
    /\ ~LastProbes[Len(LastProbes)][3].verified
    /\ settings = last.pre.cfg

\* C38: when an init asks the engine for the UDP adapter of a port Q, the
\* probe of Q made during that init did not come back (available=false,
\* verified=true): the adapter is never requested on a port this init
\* verified to be in use.
C38_AdapterNeverOnBusyPort ==
    last.op = "init" =>
        \A i \in 1..Len(last.log) :
           last.log[i][1] = "default_adapter" =>
              \A k \in 1..Len(LastProbes) :
                 LastProbes[k][2] = last.log[i][2] => LastProbes[k][3] # Busy

-----------------------------------------------------------------------------
(* Frames: input collection, the event drains, stats and poll              *)

\* a Save event: state and state_len are the engine's buffer and the slot
\* that holds its capacity, checksum the slot for the checksum
SaveEvent(capacity, has_state, has_len, has_checksum) ==
    [ type |-> "SaveEvent", frame |-> 0,
      inputs |-> <<>>, inputs_null |-> TRUE, input_len |-> 0,
      state |-> <<>>, has_state |-> has_state, state_len |-> capacity,
      has_len |-> has_len, has_checksum |-> has_checksum ]

\* a Load event carrying the bytes of a state
LoadEvent(state) ==
    [ type |-> "LoadEvent", frame |-> 0,
      inputs |-> <<>>, inputs_null |-> TRUE, input_len |-> 0,
      state |-> state, has_state |-> TRUE, state_len |-> Len(state),
      has_len |-> TRUE, has_checksum |-> FALSE ]

\* a null pointer in the array of game events
NullGameEvent == [AdvanceEvent(0, <<>>, TRUE) EXCEPT !.type = "null"]

\* an event of a type the switch does not name
EmptyGameEvent == [AdvanceEvent(0, <<>>, TRUE) EXCEPT !.type = "EmptyGameEvent"]

\* a null pointer in the array of session events
NullSessionEvent == SessionEvent("null", 0, 0)

\* what an engine call returns through (array, count)
Drain(events, null, count) == [events |-> events, null |-> null, count |-> count]

\* a drain of session events that includes a null entry
SyncThenStarted ==
    GameEvents(<<SessionEvent("PlayerSyncing", 1, 2), NullSessionEvent,
                 SessionEvent("SessionStarted", 0, 0)>>)

\* a drain of two Advance events
TwoAdvances ==
    GameEvents(<<AdvanceEvent(1, <<1, 0>>, FALSE), AdvanceEvent(2, <<0, 0>>, FALSE)>>)

\* the capacities of the engine's state buffer: below, at and above the
\* core's serialize size
SaveCapacities == {2, 4, 8}

\* what gekko_update_session may return in one drain
GameDrains ==
    { NoEvents,
      Drain(<<>>, TRUE, 2),
      Drain(<<SaveEvent(4, TRUE, TRUE, TRUE)>>, FALSE, 0),
      Drain(<<SaveEvent(4, TRUE, TRUE, TRUE)>>, FALSE, -1),
      TwoAdvances,
      GameEvents(<<SaveEvent(4, TRUE, TRUE, TRUE), LoadEvent(<<7, 9, 7, 9>>)>>),
      GameEvents(<<EmptyGameEvent, SaveEvent(4, FALSE, FALSE, TRUE)>>) }
    \cup { GameEvents(<<SaveEvent(c, TRUE, TRUE, TRUE), NullGameEvent,
                        AdvanceEvent(1, <<1, 0>>, FALSE)>>) : c \in SaveCapacities }

\* what gekko_session_events may return in one drain
SessionDrains ==
    { NoEvents,
      Drain(<<>>, TRUE, 1),
      Drain(<<SessionEvent("SessionStarted", 0, 0)>>, FALSE, 0),
      SyncThenStarted,
      GameEvents(<<SessionEvent("PlayerConnected", 1, 0),
                   SessionEvent("PlayerDisconnected", 0, 0)>>) }

\* a frame: what the two drains return, the ids held on the pad, the ping
Frame(game, sess, pad, ping) ==
    [NoInput EXCEPT !.game = game, !.sess = sess, !.pad = pad, !.ping = ping,
                    !.core_state = <<7, 9>>]

\* the frames: every game drain with one session drain and one game drain
\* with every session drain, the pad idle; and two frames with B, A and R3
\* held
FrameInputs ==
    { Frame(g, SyncThenStarted, {}, 0) : g \in GameDrains }
    \cup { Frame(TwoAdvances, ss, {}, 0) : ss \in SessionDrains }
    \cup { Frame(NoEvents, NoEvents, {0, 8, 15}, 30),
           Frame(TwoAdvances, SyncThenStarted, {0, 8, 15}, 30) }

FrameInitState == Start(NominalWorld)

FrameInit == DoInit(NULL_STR, 0)

FrameDeinit == DoDeinit

FramePreFrame == \E in \in FrameInputs : DoCtl("PRE_FRAME", NULL, in)

FramePostFrame == \E in \in FrameInputs : DoCtl("POST_FRAME", NULL, in)

FrameNext ==
    \/ FrameInit
    \/ FrameDeinit
    \/ FramePreFrame
    \/ FramePostFrame

SpecFrame == FrameInitState /\ [][FrameNext]_vars

\* the last operation was a pre-frame or post-frame call on a live session
FrameOnSession ==
    /\ last.op = "ctl"
    /\ last.args[1] \in {"PRE_FRAME", "POST_FRAME"}
    /\ SlotOccupied(last.pre.net)
    /\ last.pre.net.data.running

\* C16: the checksum a Save event writes is the CRC32, seed 0, of the bytes
\* that were copied into the engine's state buffer, whatever the buffer's
\* capacity.
C16_SaveChecksumCoversHandedBytes ==
    FrameOnSession =>
        \A i \in 2..Len(last.log) :
            (last.log[i][1] = "save_checksum" /\ last.log[i - 1][1] = "save_state") =>
                last.log[i][2] = encoding_crc32(Word(0, 0), last.log[i - 1][2])

\* the calls of the last operation that took a session handle
LastSessionCalls == SelectSeq(last.log, LAMBDA e : e[1] \in SessionCallTags)

\* the session the slot held when the last operation began
PreSession == last.pre.net.data

\* No session the program publishes has running clear: the flag is set at
\* lines 1835 and 1972 and never written again.  What the frame functions
\* do with such a session is checked on the functions themselves, applied
\* to the live session with the flag cleared and a frame that holds events.
StoppedSession ==
    [Bundle(Frame(TwoAdvances, SyncThenStarted, {0, 8, 15}, 30))
       EXCEPT !.np.running = FALSE]

\* C17: pre_frame without a session returns true and calls nothing; with a
\* session that is not running it returns false and calls nothing; otherwise
\* it asks the state callback for the 16 table buttons of port 0, submits
\* the mask whose bit i says whether button Table[i] is held (only when the
\* local actor handle is >= 0), then drains the events and returns true.
C17_PreFrameCollectsThenDrains ==
    (last.op = "ctl" /\ last.args[1] = "PRE_FRAME") =>
        /\ ~SlotOccupied(last.pre.net) => last.ret /\ last.log = <<>>
        /\ (SlotOccupied(last.pre.net) /\ ~PreSession.running) =>
               ~last.ret /\ last.log = <<>>
        /\ (SlotOccupied(last.pre.net) /\ PreSession.running) =>
               /\ last.ret
               /\ Len(last.log) >= NETPLAY_BUTTON_COUNT
               /\ netplay_pre_frame(StoppedSession)
                     = [StoppedSession EXCEPT !.ret = FALSE]
               /\ \A i \in 1..NETPLAY_BUTTON_COUNT :
                     last.log[i] = <<"state_cb", 0, RETRO_DEVICE_JOYPAD, 0,
                                     netplay_button_map[i]>>
               /\ Len(Calls(last.log, "state_cb")) = NETPLAY_BUTTON_COUNT
               /\ (Calls(last.log, "add_local_input") # <<>>)
                     = (PreSession.local_handle >= 0)
               /\ PreSession.local_handle >= 0 =>
                     /\ Len(LastSessionCalls) = 3
                     /\ LastSessionCalls[1][1] = "add_local_input"
                     /\ LastSessionCalls[1][2] = PreSession.session
                     /\ LastSessionCalls[1][3] = PreSession.local_handle
                     /\ LastSessionCalls[1][4] \in 0..(U16 - 1)
                     /\ \A i \in 0..(NETPLAY_BUTTON_COUNT - 1) :
                           (Bit(LastSessionCalls[1][4], i) = 1)
                              = (netplay_button_map[i + 1] \in last.in.pad)
                     /\ LastSessionCalls[2] = <<"update_session", PreSession.session>>
                     /\ LastSessionCalls[3] = <<"session_events", PreSession.session>>

\* a pre_frame on a live session submitted the mask of B, A and R3
C17_Witness ==
    /\ last.op = "ctl" /\ last.args[1] = "PRE_FRAME"
    /\ SlotOccupied(last.pre.net)
    /\ last.in.pad = {0, 8, 15}
    /\ last.ret
    /\ Calls(last.log, "add_local_input")
          = << <<"add_local_input", PreSession.session, PreSession.local_handle,
                 1 + 256 + 32768>> >>

\* C18: post_frame without a session, or with one that is not running,
\* calls nothing and changes nothing; otherwise it makes, in this order, one
\* drain (update_session, session_events), one network_stats call whose
\* last ping it stores in latest_ping, and one network_poll call.
C18_PostFrameDrainsStatsPoll ==
    (last.op = "ctl" /\ last.args[1] = "POST_FRAME") =>
        /\ (~SlotOccupied(last.pre.net)
              \/ (SlotOccupied(last.pre.net) /\ ~PreSession.running)) =>
               /\ last.log = <<>>
               /\ networking_driver_st = last.pre.net
               /\ engine = last.pre.eng
               /\ core = last.pre.core
               /\ settings = last.pre.cfg
               /\ g_gekkonet_api = last.pre.api
        /\ (SlotOccupied(last.pre.net) /\ PreSession.running) =>
               /\ LastSessionCalls
                     = << <<"update_session", PreSession.session>>,
                          <<"session_events", PreSession.session>>,
                          <<"network_stats", PreSession.session,
                            PreSession.local_handle>>,
                          <<"network_poll", PreSession.session>> >>
               /\ Calls(last.log, "state_cb") = <<>>
               /\ networking_driver_st.latest_ping = last.in.ping
               /\ netplay_post_frame(StoppedSession) = StoppedSession

\* a post_frame on a fresh session stored the engine's ping of 30
C18_Witness ==
    /\ last.op = "ctl" /\ last.args[1] = "POST_FRAME"
    /\ SlotOccupied(last.pre.net)
    /\ last.pre.net.latest_ping = -1
    /\ last.in.ping = 30
    /\ networking_driver_st.latest_ping = 30
    /\ Calls(last.log, "network_poll") # <<>>

\* the entries of a drain the loop dispatches: none for a null array or a
\* count that is not positive, otherwise the first count entries that are
\* not null
Dispatched(d) ==
    IF d.null \/ d.count <= 0 THEN <<>>
    ELSE SelectSeq(SubSeq(d.events, 1, d.count), LAMBDA e : e.type # "null")

\* the drain calls and the dispatches of the last operation
LastDrainLog ==
    SelectSeq(last.log, LAMBDA e : e[1] \in {"update_session", "dispatch_game",
                                             "session_events", "dispatch_session"})

\* C19: a pre-frame or post-frame drain dispatches every non-null game event
\* of the engine's array once, in the array's order, then every non-null
\* session event once, in order; a null array or a count that is not
\* positive dispatches nothing.
C19_GameEventsBeforeSessionEvents ==
    FrameOnSession =>
        LastDrainLog
          = << <<"update_session", PreSession.session>> >>
            \o [i \in 1..Len(Dispatched(last.in.game)) |->
                   <<"dispatch_game", Dispatched(last.in.game)[i]>>]
            \o << <<"session_events", PreSession.session>> >>
            \o [i \in 1..Len(Dispatched(last.in.sess)) |->
                   <<"dispatch_session", Dispatched(last.in.sess)[i]>>]

\* a drain held two game events around a null entry and two session events
\* around a null entry
C19_Witness ==
    /\ FrameOnSession
    /\ Len(Dispatched(last.in.game)) = 2
    /\ last.in.game.count = 3
    /\ Len(Dispatched(last.in.sess)) = 2
    /\ last.in.sess.count = 3
    /\ Len(LastDrainLog) = 6

-----------------------------------------------------------------------------
(* Serialization: the state buffer against a core whose size changes       *)

\* the serialize sizes the core may report: none, the nominal one, a larger
SerializeSizes == {0, 4, 8}

SerInitState == Start(NominalWorld)

SerInit == DoInit(NULL_STR, 0)

SerDeinit == DoDeinit

SerReinit == DoReinitSerialization

\* a frame whose drain holds one Save event
SerSave ==
    \E c \in SaveCapacities :
        DoCtl("PRE_FRAME", NULL,
              Frame(GameEvents(<<SaveEvent(c, TRUE, TRUE, FALSE)>>), NoEvents, {}, 0))

\* between calls the core may come to report another size, and the
\* allocator may come to fail or to succeed
SerCoreChanges ==
    \E size \in SerializeSizes, ok \in BOOLEAN :
        /\ world' = [world EXCEPT !.serialize_size = size, !.realloc_ok = ok]
        /\ world' # world
        /\ UNCHANGED <<g_gekkonet_api, networking_driver_st, settings, core,
                       engine, history, last>>

\* a frame whose drain holds a Save event followed by a Load and an
\* Advance event, with a core whose serialize callback succeeds or fails
SerSaveThenMore ==
    \E ok \in BOOLEAN :
        DoCtl("PRE_FRAME", NULL,
              [Frame(GameEvents(<<SaveEvent(4, TRUE, TRUE, TRUE),
                                  LoadEvent(<<7, 9, 7, 9>>),
                                  AdvanceEvent(1, <<1, 0>>, FALSE)>>),
                     NoEvents, {}, 0)
                 EXCEPT !.serialize_ok = ok])

SerNext ==
    \/ SerInit
    \/ SerDeinit
    \/ SerReinit
    \/ SerSave
    \/ SerSaveThenMore
    \/ SerCoreChanges

SpecSerialize == SerInitState /\ [][SerNext]_vars

\* the sizes the core reported to netplay_refresh_serialization during the
\* last operation
LastReportedSizes == Calls(last.log, "serialize_size")

\* C26: after an operation that refreshed the serialization of the session
\* in the slot, the state buffer is absent or its recorded size is the size
\* the core reported last, also when that size was 0 or the reallocation
\* failed.
C26_StateSizeIsLastReported ==
    (SlotOccupied(networking_driver_st) /\ LastReportedSizes # <<>>) =>
        \/ networking_driver_st.data.state_size = 0
        \/ networking_driver_st.data.state_size
              = LastReportedSizes[Len(LastReportedSizes)][2]

\* the last operation was a pre-frame on a running session whose drain
\* began with a Save event
SaveDrained ==
    /\ FrameOnSession
    /\ last.args[1] = "PRE_FRAME"
    /\ Dispatched(last.in.game) # <<>>
    /\ Dispatched(last.in.game)[1].type = "SaveEvent"

\* the refresh of that Save event failed: the core reported size 0, or a
\* size other than the buffer's that the session did not come to hold
SaveRefreshFailed ==
    /\ LastReportedSizes # <<>>
    /\ \/ LastReportedSizes[1][2] = 0
       \/ /\ LastReportedSizes[1][2] # PreSession.state_size
          /\ networking_driver_st.data.state_size # LastReportedSizes[1][2]

\* the Load events of a drain that carry a state
LoadsOf(d) ==
    SelectSeq(Dispatched(d), LAMBDA e : e.type = "LoadEvent" /\ e.has_state
                                          /\ e.state_len # 0)

\* C31: when the refresh of a Save event fails or the core's serialize
\* callback returns false, nothing is written for the engine (neither the
\* state buffer with its length nor the checksum slot), and the events
\* after it in the drain are dispatched all the same: the Load event is
\* handed to the core and the Advance event is taken up.
C31_FailedSaveWritesNothing ==
    (SaveDrained /\ (SaveRefreshFailed \/ ~last.in.serialize_ok)) =>
        /\ Calls(last.log, "save_state") = <<>>
        /\ Calls(last.log, "save_checksum") = <<>>
        /\ SaveRefreshFailed => Calls(last.log, "serialize") = <<>>
        /\ Calls(last.log, "dispatch_game")
              = [i \in 1..Len(Dispatched(last.in.game)) |->
                    <<"dispatch_game", Dispatched(last.in.game)[i]>>]
        /\ Len(Calls(last.log, "unserialize")) = Len(LoadsOf(last.in.game))
        /\ \A i \in 1..Len(Dispatched(last.in.game)) :
              (Dispatched(last.in.game)[i].type = "AdvanceEvent"
                 /\ i = Len(Dispatched(last.in.game))) =>
                 networking_driver_st.data.current_frame
                    = Dispatched(last.in.game)[i].frame

\* the serialize callback failed on a Save event that a Load and an Advance
\* event followed
C31_Witness ==
    /\ SaveDrained
    /\ ~SaveRefreshFailed
    /\ ~last.in.serialize_ok
    /\ Calls(last.log, "serialize") # <<>>
    /\ Calls(last.log, "unserialize") # <<>>
    /\ networking_driver_st.data.current_frame = 1

\* the refresh failed on a Save event that a Load and an Advance event
\* followed
C31_WitnessRefresh ==
    /\ SaveDrained
    /\ SaveRefreshFailed
    /\ Len(Dispatched(last.in.game)) = 3
    /\ Calls(last.log, "unserialize") # <<>>

-----------------------------------------------------------------------------
(* Session status: the session events and the status query                 *)

\* an event of a type the switch does not name
EmptySessionEvent == SessionEvent("EmptySessionEvent", 0, 0)

\* the session events a drain may hold
StatusEvents ==
    { SessionEvent("PlayerSyncing", 1, 2), SessionEvent("PlayerSyncing", 2, 2),
      SessionEvent("DesyncDetected", 5, 0),
      SessionEvent("PlayerConnected", 1, 0),
      SessionEvent("PlayerDisconnected", 0, 0),
      SessionEvent("PlayerDisconnected", 1, 0),
      SessionEvent("SessionStarted", 0, 0),
      SessionEvent("SpectatorPaused", 0, 0),
      SessionEvent("SpectatorUnpaused", 0, 0),
      NullSessionEvent, EmptySessionEvent }

\* the events that may close a drain of two
ClosingEvents ==
    { SessionEvent("PlayerSyncing", 1, 2),
      SessionEvent("PlayerDisconnected", 0, 0),
      NullSessionEvent, EmptySessionEvent }

\* the drains: none, one event, or two
StatusDrains ==
    { NoEvents }
    \cup { GameEvents(<<e>>) : e \in StatusEvents }
    \cup { GameEvents(<<e1, e2>>) : e1 \in StatusEvents, e2 \in ClosingEvents }

\* the handle gekko_add_actor gives the local player
LocalActors == {0, 1}

StatusInitState ==
    \E h \in LocalActors : Start([NominalWorld EXCEPT !.actor = h])

StatusInit == DoInit(NULL_STR, 0)

StatusDeinit == DoDeinit

StatusPreFrame ==
    \E d \in StatusDrains :
        DoCtl("PRE_FRAME", NULL, [NoInput EXCEPT !.sess = d])

StatusGet == \E data \in {NULL, 1} : DoCtl("GET_SESSION_STATUS", data, NoInput)

StatusNext ==
    \/ StatusInit
    \/ StatusDeinit
    \/ StatusPreFrame
    \/ StatusGet

SpecStatus == StatusInitState /\ [][StatusNext]_vars

\* the status an event dictates: message, sync current, sync total; <<>>
\* for an event that bears no status
StatusDictated(e) ==
    CASE e.type = "PlayerSyncing" ->
           << "Syncing players (" \o ToString(e.a) \o "/" \o ToString(e.b) \o ")",
              e.a, e.b >>
      [] e.type = "DesyncDetected" ->
           << "Desync detected (frame " \o ToString(e.a) \o ")", 0, 0 >>
      [] e.type = "PlayerConnected" ->
           << "Peer connected (handle " \o ToString(e.a) \o ")", 0, 0 >>
      [] e.type = "PlayerDisconnected" ->
           << "Peer disconnected (handle " \o ToString(e.a) \o ")", 0, 0 >>
      [] e.type \in {"SessionStarted", "SpectatorUnpaused"} ->
           << MSG_NETPLAY_STATUS_PLAYING, 0, 0 >>
      [] e.type = "SpectatorPaused" ->
           << MSG_NETPLAY_STATUS_SPECTATING, 0, 0 >>
      [] OTHER -> <<>>

\* the status of a driver state as such a triple
StatusOf(net) ==
    << net.session_status, net.session_sync_current, net.session_sync_total >>

\* the status-bearing events of a drain, in order
StatusBearing(d) ==
    SelectSeq(Dispatched(d), LAMBDA e : StatusDictated(e) # <<>>)

\* C32: after a drain of session events the status message and the sync
\* counters are those the last status-bearing event of the drain dictates,
\* and what they were when the drain bears none; GET_SESSION_STATUS with a
\* record to fill returns true with exactly the stored message and counters
\* and changes nothing.
C32_StatusFollowsLastEvent ==
    /\ FrameOnSession =>
          StatusOf(networking_driver_st)
             = IF StatusBearing(last.in.sess) = <<>> THEN StatusOf(last.pre.net)
               ELSE StatusDictated(
                      StatusBearing(last.in.sess)[Len(StatusBearing(last.in.sess))])
    /\ (last.op = "ctl" /\ last.args[1] = "GET_SESSION_STATUS"
           /\ last.args[2] # NULL) =>
          /\ last.ret
          /\ << last.status.message, last.status.session_sync_current,
                last.status.session_sync_total >> = StatusOf(last.pre.net)
          /\ networking_driver_st = last.pre.net
          /\ g_gekkonet_api = last.pre.api
          /\ settings = last.pre.cfg
          /\ core = last.pre.core
          /\ engine = last.pre.eng
          /\ history = last.pre.hist

\* the status query answered with the sync progress a drain had left
C32_Witness ==
    /\ last.op = "ctl" /\ last.args[1] = "GET_SESSION_STATUS"
    /\ last.args[2] # NULL
    /\ last.ret
    /\ last.status.message = "Syncing players (1/2)"
    /\ last.status.session_sync_current = 1
    /\ last.status.session_sync_total = 2
    /\ SlotOccupied(networking_driver_st)

\* the events of the last drain that the switch names
NamedEvents ==
    SelectSeq(Dispatched(last.in.sess), LAMBDA e : e.type # "EmptySessionEvent")

\* the last operation drained one PlayerDisconnected event, alone or beside
\* a null entry or an event the switch does not name
DisconnectDrained ==
    /\ FrameOnSession
    /\ Len(NamedEvents) = 1
    /\ NamedEvents[1].type = "PlayerDisconnected"

\* C33: a PlayerDisconnected(handle) event clears the session's connected
\* flag when handle is the local actor's handle and leaves the flag as it
\* was for any other handle; spectator, session_started and running keep
\* their values in both cases.
C33_DisconnectClearsConnectedIffLocal ==
    DisconnectDrained =>
        /\ SlotOccupied(networking_driver_st)
        /\ networking_driver_st.data.connected
              = IF NamedEvents[1].a = PreSession.local_handle THEN FALSE
                ELSE PreSession.connected
        /\ networking_driver_st.data.spectator = PreSession.spectator
        /\ networking_driver_st.data.session_started = PreSession.session_started
        /\ networking_driver_st.data.running = PreSession.running

\* a connected session stayed connected when another peer's handle
\* disconnected
C33_Witness ==
    /\ DisconnectDrained
    /\ PreSession.connected
    /\ PreSession.spectator
    /\ NamedEvents[1].a # PreSession.local_handle
    /\ networking_driver_st.data.connected

\* a connected session lost the flag when the local handle disconnected
C33_WitnessLocal ==
    /\ DisconnectDrained
    /\ PreSession.connected
    /\ NamedEvents[1].a = PreSession.local_handle
    /\ ~networking_driver_st.data.connected

-----------------------------------------------------------------------------
(* The authoritative view: masks of up to three ports and the joypad query *)

\* the payloads of an Advance event: nothing, or the masks of one, two or
\* three ports, low byte first
MaskPayloads == { <<>>, <<1, 0>>, <<0, 0, 1, 1>>, <<0, 0, 0, 0, 1, 1>> }

\* the ports a query names: the two players' and two past them
MaskPorts == {0, 1, 2, 3}

MaskInitState == Start(NominalWorld)

MaskInit == DoInit(NULL_STR, 0)

MaskDeinit == DoDeinit

MaskPreFrame ==
    \E pl \in MaskPayloads, n \in BOOLEAN :
        DoCtl("PRE_FRAME", NULL,
              [NoInput EXCEPT !.game = GameEvents(<<AdvanceEvent(1, pl, n)>>)])

\* joypad queries for B and A
MaskQuery ==
    \E port \in MaskPorts, id \in {0, 8}, in \in PadInputs :
        DoInputState(port, RETRO_DEVICE_JOYPAD, 0, id, in)

MaskNext ==
    \/ MaskInit
    \/ MaskDeinit
    \/ MaskPreFrame
    \/ MaskQuery

SpecMask == MaskInitState /\ [][MaskNext]_vars

\* the last operation was a joypad query on a running session
MaskQueried ==
    /\ last.op = "input_state"
    /\ SlotOccupied(last.pre.net)
    /\ last.pre.net.data.running

\* the mask lies outside the view of a session: the view is invalid, the
\* buffer is absent, or the two bytes of port p do not fit its length
MaskOutside(np, p) ==
    \/ ~np.authoritative_valid
    \/ np.authoritative_size = 0
    \/ 2 * p + 2 > np.authoritative_size

\* C34: port_mask(p) is 0 when the view is invalid, the buffer is absent or
\* p*2+2 exceeds the buffer length, and the stored mask otherwise, also
\* for a port p >= num_players; a joypad query answers accordingly, without
\* a state callback.  (Ports are those a frontend passes, far below 2^31:
\* the offset 2*p is computed without wrapping.)
C34_PortMaskBoundedByBufferLength ==
    /\ SlotOccupied(networking_driver_st) =>
          \A p \in MaskPorts :
             netplay_get_port_mask(networking_driver_st.data, p)
               = IF MaskOutside(networking_driver_st.data, p) THEN 0
                 ELSE MaskAt(networking_driver_st.data.authoritative_input, p)
    /\ netplay_get_port_mask(NULL_NETPLAY, 0) = 0
    /\ MaskQueried =>
          /\ last.out = IF MaskOutside(last.pre.net.data, last.args[1]) THEN 0
                        ELSE Bit(MaskAt(last.pre.net.data.authoritative_input,
                                        last.args[1]), QueryBit)
          /\ Calls(last.log, "state_cb") = <<>>

\* a query for B on port 2 of a two-player session answered from a view of
\* six bytes
C34_Witness ==
    /\ MaskQueried
    /\ last.args[1] = 2 /\ last.args[4] = 0
    /\ last.pre.net.data.num_players = 2
    /\ last.pre.net.data.authoritative_valid
    /\ last.pre.net.data.authoritative_size = 6
    /\ last.in.pad = {}
    /\ last.out = 1

\* a query on port 1 answered 0 from a valid view of two bytes
C34_WitnessShort ==
    /\ MaskQueried
    /\ last.args[1] = 1
    /\ last.pre.net.data.authoritative_valid
    /\ last.pre.net.data.authoritative_size = 2
    /\ last.in.pad = {0, 8}
    /\ last.out = 0

====
